---- MODULE Spec2Model ----
(***************************************************************************)
(* State-machine model of FeedFormulationClient (src/src/feed-client.ts).  *)
(*                                                                         *)
(* One client instance is constructed from (apiKey, userEmail, userPin).   *)
(* Callers invoke its async operations; up to NumTasks invocations are in  *)
(* flight at once.  JavaScript runs each invocation atomically between two *)
(* awaits, so every action below is the code from one suspension point to  *)
(* the next.  The backend is the environment: each response is drawn       *)
(* nondeterministically (network error, non-success status, success body). *)
(***************************************************************************)
EXTENDS Integers, Sequences, FiniteSets, TLC

(* ----------------------------- bounds ---------------------------------- *)
NumTasks == 2        \* invocations that may be in flight at once
MaxOps == 2          \* invocations started over the client's lifetime
MaxClock == 1        \* Date.now() ranges over 0..MaxClock
Timestamps == 0..MaxClock

Tasks == 1..NumTasks

(* ------------------------ JavaScript values ---------------------------- *)
Absent == "<absent>"                  \* undefined / null
Truthy(x) == x # Absent /\ x # ""     \* JS truthiness of string | null
OrElse(x, d) == IF Truthy(x) THEN x ELSE d        \* x || d

(* ------------------------ input domains -------------------------------- *)
ApiKeyArgs == {Absent, "", "k1"}
EmailArgs == {Absent, "e1"}
PinArgs == {Absent, "p1"}
CountryArgs == {Absent, "", "c9"}
FeedIdLists == {<<>>, <<"f2">>, <<"f1", "f2">>}
\* the remaining arguments of a diet operation: none given, all given, and
\* only the feeds given
OtherArgs ==
    {[userId |-> Absent, currency |-> Absent, feedIds |-> <<>>],
     [userId |-> "u9", currency |-> "EUR", feedIds |-> <<"f1", "f2">>],
     [userId |-> Absent, currency |-> Absent, feedIds |-> <<"f1", "f2">>]}

(* ------------------------ backend domains ------------------------------ *)
BadStatuses == {"500"}
Users ==
    {[id |-> "u1", country_id |-> "c1", currency |-> "ETB"],
     [id |-> "u2", country_id |-> Absent, currency |-> Absent]}
NoUser == [id |-> Absent, country_id |-> Absent, currency |-> Absent]
FeedCountries == {Absent, "", "c1"}   \* fd_country_id of a returned FeedDetails
ErrorBodies == {"err-text"}           \* raw body of a non-success response
FeedLists == {"[]", "[f1,f2]"}        \* a list of FeedDetails, as JSON
SearchArgs == {Absent, "c9"}          \* params.country_id of searchFeeds
DietBodies == {"diet-json"}           \* opaque backend result

VARIABLES
    ctorArgs,          \* arguments given to the constructor
    phase,             \* "new" | "ready" | "failed"
    ctorError,         \* message thrown by the constructor, or Absent
    apiKey, userEmail, userPin,
    cachedUserId, cachedCountryId, cachedCurrency,
    tasks,             \* one record per invocation slot
    opsStarted,        \* invocations started so far
    loginCount,        \* POST /auth/login requests issued so far
    loginUsers,        \* identities carried by successful login bodies so far
    srv,               \* the tool-serving layer: configuration, inbound requests
    imp                \* the import script: uploads in flight and tallies

vars == <<ctorArgs, phase, ctorError, apiKey, userEmail, userPin,
          cachedUserId, cachedCountryId, cachedCurrency,
          tasks, opsStarted, loginCount, loginUsers, srv, imp>>

clientVars == <<ctorArgs, phase, ctorError, apiKey, userEmail, userPin>>
cacheVars == <<cachedUserId, cachedCountryId, cachedCurrency>>
\* what lies outside the client: the server layer and the import script
outerVars == <<srv, imp>>
\* no server is running, no import is running
NoServer == [kind |-> "none"]
NoImport == [pc |-> "none"]

(* ------------------------ error messages ------------------------------- *)
MissingCredentials == "Either API key or email+PIN must be provided"
EmailPinRequired == <<"Email and PIN required for authentication">>
UserIdUnsupported == <<"User ID not available with API key authentication. Use organization context instead.">>
CountryIdUnsupported == <<"Country ID not available with API key authentication. Specify country_id in requests.">>
CountryIdNotAvailable == <<"Country ID not available">>
CountryRequired == <<"country_id is required. Either provide it explicitly or ensure feeds have country_id set.">>
NetworkError == <<"fetch failed">>
\* response.statusText, the reason phrase of the status line
StatusText(st) == IF st = "500" THEN "Internal Server Error" ELSE "OK"
AuthFailedStatus(st) ==
    <<"Failed to authenticate: ", "Authentication failed: ", st, " ", StatusText(st)>>
AuthFailedBody == <<"Failed to authenticate: ", "Invalid authentication response">>
AuthFailedNetwork == <<"Failed to authenticate: ">> \o NetworkError
\* variant: the message names the feed only
FeedFailedNoStatus(st) == <<"Failed to get ", "feed">>

FeedFailed(st) == <<"Failed to get ", "feed", ": ", st>>
CountriesFailed(st) == <<"Failed to get ", "countries", ": ", st>>
SearchFailed(st) == <<"Failed to search ", "feeds", ": ", st>>
\* variant: the message stops at the status
DietFailedNoBody(op, st, body) ==
    <<IF op = "evaluateDiet" THEN "Diet evaluation failed: " ELSE "Diet recommendation failed: ",
      st>>

DietFailed(op, st, body) ==
    <<IF op = "evaluateDiet" THEN "Diet evaluation failed: " ELSE "Diet recommendation failed: ",
      st, " - ", body>>

ServiceAccountUserId == "00000000-0000-0000-0000-000000000000"
DefaultCurrency == "USD"

(* ------------------------ task records --------------------------------- *)
IdleTask ==
    [op |-> "none", countryId |-> Absent, userId |-> Absent, currency |-> Absent,
     feedIds |-> <<>>, pc |-> "idle", stack |-> <<>>, ret |-> Absent,
     userIdToUse |-> Absent, countryIdToUse |-> Absent, currencyToUse |-> Absent,
     calls |-> <<>>, status |-> "idle", result |-> Absent, error |-> <<>>,
     cacheAtCall |-> FALSE]

\* an outbound fetch(); resp/val record the response once it has arrived
\* (shape is the form of a searchFeeds success body)
Request(ep, id) ==
    [ep |-> ep, id |-> id, ctype |-> Absent, auth |-> <<>>, user_id |-> Absent,
     country_id |-> Absent, currency |-> Absent, sim |-> <<>>,
     resp |-> "pending", val |-> Absent, shape |-> Absent]

\* fetch(url, {headers: h, ...})
WithHeaders(req, h) == [req EXCEPT !.ctype = h.ctype, !.auth = h.auth]

Answered(s, resp, val) ==
    [s EXCEPT !.calls[Len(s.calls)].resp = resp, !.calls[Len(s.calls)].val = val]

(* ------------------------ constructor ---------------------------------- *)
\* variant: one of email and PIN is taken for a complete pair
ConstructorEmailOrPin(a) ==
    IF Truthy(a.apiKey)
    THEN [ok |-> TRUE, apiKey |-> a.apiKey, userEmail |-> Absent, userPin |-> Absent,
          error |-> Absent]
    ELSE IF Truthy(a.userEmail) \/ Truthy(a.userPin)
    THEN [ok |-> TRUE, apiKey |-> Absent, userEmail |-> a.userEmail, userPin |-> a.userPin,
          error |-> Absent]
    ELSE [ok |-> FALSE, apiKey |-> Absent, userEmail |-> Absent, userPin |-> Absent,
          error |-> MissingCredentials]

\* variant: the email+PIN pair is preferred over the API key
ConstructorPrefersEmailPin(a) ==
    IF Truthy(a.userEmail) /\ Truthy(a.userPin)
    THEN [ok |-> TRUE, apiKey |-> Absent, userEmail |-> a.userEmail, userPin |-> a.userPin,
          error |-> Absent]
    ELSE IF Truthy(a.apiKey)
    THEN [ok |-> TRUE, apiKey |-> a.apiKey, userEmail |-> Absent, userPin |-> Absent,
          error |-> Absent]
    ELSE [ok |-> FALSE, apiKey |-> Absent, userEmail |-> Absent, userPin |-> Absent,
          error |-> MissingCredentials]

\* constructor (feed-client.ts 135-152): API key preferred over email+PIN
Constructor(a) ==
    IF Truthy(a.apiKey)
    THEN [ok |-> TRUE, apiKey |-> a.apiKey, userEmail |-> Absent, userPin |-> Absent,
          error |-> Absent]
    ELSE IF Truthy(a.userEmail) /\ Truthy(a.userPin)
    THEN [ok |-> TRUE, apiKey |-> Absent, userEmail |-> a.userEmail, userPin |-> a.userPin,
          error |-> Absent]
    ELSE [ok |-> FALSE, apiKey |-> Absent, userEmail |-> Absent, userPin |-> Absent,
          error |-> MissingCredentials]

(* ------------------------ control flow helpers ------------------------- *)
\* a thrown error that no frame catches rejects the invocation's promise
Throw(s, msg) ==
    [s EXCEPT !.status = "error", !.error = msg, !.pc = "done", !.stack = <<>>]

\* an awaited call returns v: continue at the frame on top of k, or resolve
\* the invocation's promise when k is empty
Resume(s, v, k) ==
    IF k = <<>>
    THEN [s EXCEPT !.status = "ok", !.result = v, !.pc = "done", !.stack = <<>>,
                   !.ret = Absent]
    ELSE [s EXCEPT !.ret = v, !.pc = Head(k), !.stack = Tail(k)]

JsonContentType == "application/json"
Bearer(key) == <<"Bearer", key>>

\* getAuthHeaders (157-169): Authorization only when an API key is set
\* variant: no Authorization header in either mode
GetAuthHeadersContentTypeOnly == [ctype |-> JsonContentType, auth |-> <<>>]

GetAuthHeaders ==
    [ctype |-> JsonContentType, auth |-> IF Truthy(apiKey) THEN Bearer(apiKey) ELSE <<>>]

\* the literal headers of the login request (186)
LoginHeaders == [ctype |-> JsonContentType, auth |-> <<>>]

(* ------------------------ authenticate --------------------------------- *)
\* variant: the cache is not consulted, every call logs in
AuthenticateNoCacheCheck(s, k) ==
    IF ~Truthy(userEmail) \/ ~Truthy(userPin)
    THEN Throw(s, EmailPinRequired)
    ELSE [s EXCEPT !.calls = Append(@, WithHeaders(Request("login", Absent), LoginHeaders)),
                   !.pc = "login", !.stack = k]

\* authenticate (174-191), up to the await on fetch
Authenticate(s, k) ==
    IF Truthy(cachedUserId)
    THEN Resume(s, cachedUserId, k)
    ELSE IF ~Truthy(userEmail) \/ ~Truthy(userPin)
    THEN Throw(s, EmailPinRequired)
    ELSE [s EXCEPT !.calls = Append(@, WithHeaders(Request("login", Absent), LoginHeaders)),
                   !.pc = "login", !.stack = k]

LoginResponses ==
    {[kind |-> "neterr", status |-> "", body |-> Absent, success |-> FALSE,
      hasUser |-> FALSE, user |-> NoUser]}
    \cup [kind : {"http"}, status : BadStatuses, body : ErrorBodies, success : {FALSE},
          hasUser : {FALSE}, user : {NoUser}]
    \cup [kind : {"ok"}, status : {"200"}, body : {Absent}, success : BOOLEAN,
          hasUser : {FALSE}, user : {NoUser}]
    \cup [kind : {"ok"}, status : {"200"}, body : {Absent}, success : BOOLEAN,
          hasUser : {TRUE}, user : Users]

\* the checks of lines 193-201 all pass
\* variant: the success flag of the body is not looked at
LoginAcceptedAnyFlag(r) == r.kind = "ok" /\ r.hasUser

LoginAccepted(r) == r.kind = "ok" /\ r.success /\ r.hasUser

\* variant: the user id is returned but not stored
CacheAfterLoginNoUserId(r) ==
    IF LoginAccepted(r)
    THEN <<cachedUserId, r.user.country_id, OrElse(r.user.currency, DefaultCurrency)>>
    ELSE <<cachedUserId, cachedCountryId, cachedCurrency>>

\* variant: a rejected login resets the cache
CacheAfterLoginResetOnFailure(r) ==
    IF LoginAccepted(r)
    THEN <<r.user.id, r.user.country_id, OrElse(r.user.currency, DefaultCurrency)>>
    ELSE <<Absent, Absent, Absent>>

\* variant: a rejected login drops the cached country and currency
CacheAfterLoginForgetsOnFailure(r) ==
    IF LoginAccepted(r)
    THEN <<r.user.id, r.user.country_id, OrElse(r.user.currency, DefaultCurrency)>>
    ELSE <<cachedUserId, Absent, Absent>>

\* the cache after the response has been handled (203-205, or a throw)
CacheAfterLogin(r) ==
    IF LoginAccepted(r)
    THEN <<r.user.id, r.user.country_id, OrElse(r.user.currency, DefaultCurrency)>>
    ELSE <<cachedUserId, cachedCountryId, cachedCurrency>>

\* authenticate (193-210), from the fetch response to return or throw
\* (the call log keeps the raw body of a non-success response, and the user
\* id of a success body that has both the success flag and the user object)
AuthenticateResponse(s, r) ==
    LET a == Answered(s, IF r.kind = "http" THEN r.status ELSE r.kind,
                         IF r.kind = "http" THEN r.body
                         ELSE IF r.kind = "ok" /\ r.success /\ r.hasUser THEN r.user.id
                         ELSE Absent)
    IN  IF r.kind = "neterr" THEN Throw(a, AuthFailedNetwork)
        ELSE IF r.kind = "http" THEN Throw(a, AuthFailedStatus(r.status))
        ELSE IF ~LoginAccepted(r) THEN Throw(a, AuthFailedBody)
        ELSE Resume(a, CacheAfterLogin(r)[1], a.stack)

\* getUserId (216-221)
GetUserId(s, k) ==
    IF Truthy(apiKey) THEN Throw(s, UserIdUnsupported) ELSE Authenticate(s, k)

\* getCountryId (226-230), up to the await on authenticate
GetCountryId(s, k) ==
    IF Truthy(apiKey) THEN Throw(s, CountryIdUnsupported)
    ELSE Authenticate(s, <<"getCountryId">> \o k)

\* getCountryId (231-234), after authenticate has returned
GetCountryIdCheck(s) ==
    IF ~Truthy(cachedCountryId) THEN Throw(s, CountryIdNotAvailable)
    ELSE Resume(s, cachedCountryId, s.stack)

\* getCurrency (240-244), up to the await on authenticate
GetCurrency(s, k) ==
    IF Truthy(apiKey) THEN Resume(s, DefaultCurrency, k)
    ELSE Authenticate(s, <<"getCurrency">> \o k)

\* getCurrency (245), after authenticate has returned
GetCurrencyRead(s) == Resume(s, OrElse(cachedCurrency, DefaultCurrency), s.stack)

(* ------------------------ feed lookup and detection -------------------- *)
\* variant: the last id of the list is looked up
FirstFeedIdLast(ids) == IF Len(ids) = 0 THEN Absent ELSE ids[Len(ids)]

\* feedIds[0]; undefined when the list is empty
FirstFeedId(ids) == IF Len(ids) = 0 THEN Absent ELSE ids[1]

\* getFeedById (264-267), up to the await on fetch
GetFeedById(s, feedId, k) ==
    [s EXCEPT !.calls = Append(@, WithHeaders(Request("feed", feedId), GetAuthHeaders)),
              !.pc = "feed", !.stack = k]

\* variant: no early return for an empty list
DetectCountryFromFeedsNoEmptyCheck(s, ids, k) ==
    GetFeedById(s, FirstFeedId(ids), <<"detectCountryFromFeeds">> \o k)

\* detectCountryFromFeeds (368-372), up to the first await
DetectCountryFromFeeds(s, ids, k) ==
    IF Len(ids) = 0 THEN Resume(s, Absent, k)
    ELSE GetFeedById(s, FirstFeedId(ids), <<"detectCountryFromFeeds">> \o k)

FeedResponses ==
    {[kind |-> "neterr", status |-> "", body |-> Absent, country |-> Absent]}
    \cup [kind : {"http"}, status : BadStatuses, body : ErrorBodies, country : {Absent}]
    \cup [kind : {"ok"}, status : {"200"}, body : {Absent}, country : FeedCountries]

\* variant: detectCountryFromFeeds without its try/catch
FeedLookupResponseNoCatch(s, r) ==
    LET a == Answered(s, IF r.kind = "http" THEN r.status ELSE r.kind,
                         IF r.kind = "http" THEN r.body ELSE r.country)
        failed == r.kind # "ok"
        msg == IF r.kind = "neterr" THEN NetworkError ELSE FeedFailed(r.status)
    IN  IF failed THEN Throw(a, msg)
        ELSE IF a.stack # <<>> /\ Head(a.stack) = "detectCountryFromFeeds"
        THEN Resume(a, OrElse(r.country, Absent), Tail(a.stack))
        ELSE Resume(a, r.country, a.stack)

\* getFeedById (268-271) and, when detectCountryFromFeeds awaits it, the
\* rest of detectCountryFromFeeds (373-377): its catch turns a throw into
\* null.  Nothing shared is read between the two, so they are one step.
FeedLookupResponse(s, r) ==
    LET a == Answered(s, IF r.kind = "http" THEN r.status ELSE r.kind,
                         IF r.kind = "http" THEN r.body ELSE r.country)
        failed == r.kind # "ok"
        msg == IF r.kind = "neterr" THEN NetworkError ELSE FeedFailed(r.status)
    IN  IF a.stack # <<>> /\ Head(a.stack) = "detectCountryFromFeeds"
        THEN Resume(a, IF failed THEN Absent ELSE OrElse(r.country, Absent), Tail(a.stack))
        ELSE IF failed THEN Throw(a, msg)
        ELSE Resume(a, r.country, a.stack)

(* ------------------------ diet requests -------------------------------- *)
DietEndpoint(op) == IF op = "evaluateDiet" THEN "eval" ELSE "rec"
\* variant: both operations tag their simulation id "sim"
SimPrefixAlwaysSim(op) == "sim"

SimPrefix(op) == IF op = "evaluateDiet" THEN "eval" ELSE "sim"

\* request assembly and fetch: getDietRecommendation 341-355, evaluateDiet 426-441
\* ts is the value Date.now() returns
Dispatch(s, ts) ==
    [s EXCEPT !.calls = Append(@,
                 [WithHeaders(Request(DietEndpoint(s.op), Absent), GetAuthHeaders) EXCEPT
                     !.user_id = s.userIdToUse,
                     !.country_id = s.countryIdToUse,
                     !.currency = IF s.op = "evaluateDiet" THEN s.currencyToUse ELSE Absent,
                     !.sim = <<SimPrefix(s.op), ts>>]),
              !.pc = "diet", !.stack = <<>>]

\* variant: the service account and the fallback currency whatever was given
ApiKeyIdentityDefaultsOnly(s, ts) ==
    Dispatch([s EXCEPT !.userIdToUse = ServiceAccountUserId,
                       !.currencyToUse = DefaultCurrency], ts)

\* API-key branch after the country is known: 335 / 418-419.  The await on
\* getServiceAccountUserId reads nothing shared and is not a separate step.
ApiKeyIdentity(s, ts) ==
    Dispatch([s EXCEPT !.userIdToUse = OrElse(s.userId, ServiceAccountUserId),
                       !.currencyToUse = OrElse(s.currency, DefaultCurrency)], ts)

\* variant: an undetected country is not rejected
AfterDetectNoCheck(s, ts) ==
    ApiKeyIdentity([s EXCEPT !.countryIdToUse = s.ret, !.ret = Absent], ts)

\* API-key branch 326-329 / 409-412, after detectCountryFromFeeds returned
AfterDetect(s, ts) ==
    IF ~Truthy(s.ret) THEN Throw(s, CountryRequired)
    ELSE ApiKeyIdentity([s EXCEPT !.countryIdToUse = s.ret, !.ret = Absent], ts)

\* email+PIN branch once countryIdToUse is set: 423 (evaluateDiet only)
AfterCountry(s, ts) ==
    IF s.op = "getDietRecommendation" THEN Dispatch(s, ts)
    ELSE IF Truthy(s.currency) THEN Dispatch([s EXCEPT !.currencyToUse = s.currency], ts)
    ELSE GetCurrency(s, <<"currency">>)

\* variant: an explicit userId argument replaces the authenticated one
AfterUserIdExplicitFirst(s, ts) ==
    LET s1 == [s EXCEPT !.userIdToUse = OrElse(s.userId, s.ret), !.ret = Absent]
    IN  IF Truthy(s.countryId) THEN AfterCountry([s1 EXCEPT !.countryIdToUse = s.countryId], ts)
        ELSE GetCountryId(s1, <<"country">>)

\* email+PIN branch 337-338 / 421-422, after getUserId returned
AfterUserId(s, ts) ==
    LET s1 == [s EXCEPT !.userIdToUse = s.ret, !.ret = Absent]
    IN  IF Truthy(s.countryId) THEN AfterCountry([s1 EXCEPT !.countryIdToUse = s.countryId], ts)
        ELSE GetCountryId(s1, <<"country">>)

\* variant: the API-key branch is taken whatever the mode
DietStartAlwaysApiKeyBranch(s, ts) ==
    IF ~Truthy(s.countryId)
    THEN DetectCountryFromFeeds(s, s.feedIds, <<"detected">>)
    ELSE ApiKeyIdentity([s EXCEPT !.countryIdToUse = s.countryId], ts)

\* variant: an API-key client detects the country whenever it has feed ids
DietStartDetectsFirst(s, ts) ==
    IF Truthy(apiKey)
    THEN IF ~Truthy(s.countryId) \/ s.feedIds # <<>>
         THEN DetectCountryFromFeeds(s, s.feedIds, <<"detected">>)
         ELSE ApiKeyIdentity([s EXCEPT !.countryIdToUse = s.countryId], ts)
    ELSE GetUserId(s, <<"user">>)

\* getDietRecommendation 321-337 / evaluateDiet 404-421, up to the first await
DietStart(s, ts) ==
    IF Truthy(apiKey)
    THEN IF ~Truthy(s.countryId)
         THEN DetectCountryFromFeeds(s, s.feedIds, <<"detected">>)
         ELSE ApiKeyIdentity([s EXCEPT !.countryIdToUse = s.countryId], ts)
    ELSE GetUserId(s, <<"user">>)

\* detectCountryFromFeeds has returned to the diet operation awaiting it.
\* Only API-key clients get here, and they read and write no shared field,
\* so the continuation runs in the step that produced the return value.
Detected(s, ts) ==
    IF s.status = "running" /\ s.pc = "detected" THEN AfterDetect(s, ts) ELSE s

DietResponses ==
    {[kind |-> "neterr", status |-> "", body |-> ""]}
    \cup [kind : {"http"}, status : BadStatuses, body : ErrorBodies]
    \cup [kind : {"ok"}, status : {"200"}, body : DietBodies]

\* variant: a non-success response is answered by sending the request again
DietResponseRetry(s, r) ==
    LET a == Answered(s, IF r.kind = "http" THEN r.status ELSE r.kind, r.body)
    IN  IF r.kind = "neterr" THEN Throw(a, NetworkError)
        ELSE IF r.kind = "http" /\ Len(a.calls) < 3
        THEN [a EXCEPT !.calls = Append(@, [a.calls[Len(a.calls)] EXCEPT
                                               !.resp = "pending", !.val = Absent])]
        ELSE IF r.kind = "http" THEN Throw(a, DietFailed(a.op, r.status, r.body))
        ELSE Resume(a, r.body, <<>>)

\* 357-362 / 443-448
DietResponse(s, r) ==
    LET a == Answered(s, IF r.kind = "http" THEN r.status ELSE r.kind, r.body)
    IN  IF r.kind = "neterr" THEN Throw(a, NetworkError)
        ELSE IF r.kind = "http" THEN Throw(a, DietFailed(a.op, r.status, r.body))
        ELSE Resume(a, r.body, <<>>)

(* ------------------------ getCountries and searchFeeds ----------------- *)
\* variant: the cached user id is sent along as a credential
GetCountriesWithIdentity(s) ==
    [s EXCEPT !.calls = Append(@,
                 [WithHeaders(Request("countries", Absent), GetAuthHeaders) EXCEPT
                     !.user_id = cachedUserId]),
              !.pc = "countries", !.stack = <<>>]

\* getCountries (251-254), up to the await on fetch
GetCountries(s) ==
    [s EXCEPT !.calls = Append(@, WithHeaders(Request("countries", Absent), GetAuthHeaders)),
              !.pc = "countries", !.stack = <<>>]

CountriesResponses ==
    {[kind |-> "neterr", status |-> "", body |-> Absent]}
    \cup [kind : {"http"}, status : BadStatuses, body : ErrorBodies]
    \cup [kind : {"ok"}, status : {"200"}, body : {"[countries]"}]

\* getCountries (255-258)
CountriesResponse(s, r) ==
    LET a == Answered(s, IF r.kind = "http" THEN r.status ELSE r.kind, r.body)
    IN  IF r.kind = "neterr" THEN Throw(a, NetworkError)
        ELSE IF r.kind = "http" THEN Throw(a, CountriesFailed(r.status))
        ELSE Resume(a, r.body, <<>>)

\* searchFeeds (284-294), up to the await on fetch; of the query parameters
\* only country_id is modelled: it is appended when truthy
SearchFeeds(s) ==
    [s EXCEPT !.calls = Append(@,
                 [WithHeaders(Request("search", Absent), GetAuthHeaders) EXCEPT
                     !.country_id = IF Truthy(s.countryId) THEN s.countryId ELSE Absent]),
              !.pc = "search", !.stack = <<>>]

\* a success body is a bare array (data is the list) or an object with a
\* feeds member
SearchBodies ==
    [shape : {"array"}, data : FeedLists, feeds : {Absent}]
    \cup [shape : {"envelope"}, data : {"{total,limit,offset,feeds}"}, feeds : FeedLists]

SearchResponses ==
    {[kind |-> "neterr", status |-> "", body |-> Absent]}
    \cup [kind : {"http"}, status : BadStatuses, body : ErrorBodies]
    \cup [kind : {"ok"}, status : {"200"}, body : SearchBodies]

\* the list the backend sent, whatever the form of the body
ListSent(b) == IF b.feeds # Absent THEN b.feeds ELSE b.data

\* variant: the body is returned as it came
UnwrapFeedsNever(data) == data.data

\* searchFeeds (303-306): 'feeds' in data ? data.feeds : data
UnwrapFeeds(data) == IF data.shape = "envelope" THEN data.feeds ELSE data.data

\* searchFeeds (296-306)
SearchResponse(s, r) ==
    LET a == IF r.kind = "ok"
             THEN [Answered(s, "ok", ListSent(r.body)) EXCEPT
                      !.calls[Len(s.calls)].shape = r.body.shape]
             ELSE Answered(s, IF r.kind = "http" THEN r.status ELSE r.kind, r.body)
    IN  IF r.kind = "neterr" THEN Throw(a, NetworkError)
        ELSE IF r.kind = "http" THEN Throw(a, SearchFailed(r.status))
        ELSE Resume(a, UnwrapFeeds(r.body), <<>>)

(* ------------------------ invocations ---------------------------------- *)
Ops == {"getUserId", "getCountryId", "getCurrency", "detectCountryFromFeeds",
        "getDietRecommendation", "evaluateDiet",
        "getFeedById", "searchFeeds", "getCountries"}

\* the argument lists a caller can pass to op
Invocations(op) ==
    LET base == [IdleTask EXCEPT !.op = op, !.status = "running", !.pc = "start"]
    IN  IF op = "detectCountryFromFeeds"
        THEN {[base EXCEPT !.feedIds = f] : f \in FeedIdLists}
        ELSE IF op = "getFeedById"
        THEN {[base EXCEPT !.feedIds = <<"f1">>]}
        ELSE IF op = "searchFeeds"
        THEN {[base EXCEPT !.countryId = c] : c \in SearchArgs}
        ELSE IF op = "getDietRecommendation"
        THEN {[base EXCEPT !.feedIds = o.feedIds, !.countryId = c, !.userId = o.userId] :
                 c \in CountryArgs, o \in OtherArgs}
        ELSE IF op = "evaluateDiet"
        THEN {[base EXCEPT !.feedIds = o.feedIds, !.countryId = c, !.userId = o.userId,
                           !.currency = o.currency] :
                 c \in CountryArgs, o \in OtherArgs}
        ELSE {base}

\* the synchronous prefix of op, from the call to its first await
Start(s, ts) ==
    IF s.op = "getUserId" THEN GetUserId(s, <<>>)
    ELSE IF s.op = "getCountryId" THEN GetCountryId(s, <<>>)
    ELSE IF s.op = "getCurrency" THEN GetCurrency(s, <<>>)
    ELSE IF s.op = "detectCountryFromFeeds" THEN DetectCountryFromFeeds(s, s.feedIds, <<>>)
    ELSE IF s.op = "getFeedById" THEN GetFeedById(s, s.feedIds[1], <<>>)
    ELSE IF s.op = "searchFeeds" THEN SearchFeeds(s)
    ELSE IF s.op = "getCountries" THEN GetCountries(s)
    ELSE Detected(DietStart(s, ts), ts)

Logins(s) == Cardinality({i \in 1..Len(s.calls) : s.calls[i].ep = "login"})

(* ------------------------ actions -------------------------------------- *)
Init ==
    /\ ctorArgs \in [apiKey : ApiKeyArgs, userEmail : EmailArgs, userPin : PinArgs]
    /\ phase = "new"
    /\ ctorError = Absent
    /\ apiKey = Absent /\ userEmail = Absent /\ userPin = Absent
    /\ cachedUserId = Absent /\ cachedCountryId = Absent /\ cachedCurrency = Absent
    /\ tasks = [t \in Tasks |-> IdleTask]
    /\ opsStarted = 0
    /\ loginCount = 0
    /\ loginUsers = {}
    /\ srv = NoServer
    /\ imp = NoImport

\* new FeedFormulationClient(baseUrl, apiKey, userEmail, userPin)
Construct ==
    /\ phase = "new"
    /\ LET c == Constructor(ctorArgs)
       IN  /\ phase' = IF c.ok THEN "ready" ELSE "failed"
           /\ ctorError' = c.error
           /\ apiKey' = c.apiKey
           /\ userEmail' = c.userEmail
           /\ userPin' = c.userPin
    /\ UNCHANGED <<outerVars, ctorArgs, cacheVars, tasks, opsStarted, loginCount, loginUsers>>

\* a caller invokes an operation of the client
Call(t) ==
    /\ phase = "ready"
    /\ tasks[t].status = "idle"
    /\ opsStarted < MaxOps
    /\ \E op \in Ops : \E inv \in Invocations(op) : \E ts \in Timestamps :
          LET s == Start([inv EXCEPT !.cacheAtCall = Truthy(cachedUserId)], ts)
          IN  /\ tasks' = [tasks EXCEPT ![t] = s]
              /\ loginCount' = loginCount + Logins(s)
    /\ opsStarted' = opsStarted + 1
    /\ UNCHANGED <<outerVars, clientVars, cacheVars, loginUsers>>

\* a continuation that runs after an await and touches no network response
Continue(t, pc, next) ==
    /\ tasks[t].status = "running"
    /\ tasks[t].pc = pc
    /\ tasks' = [tasks EXCEPT ![t] = next]
    /\ loginCount' = loginCount + (Logins(next) - Logins(tasks[t]))
    /\ UNCHANGED <<outerVars, clientVars, cacheVars, opsStarted, loginUsers>>

ResumeAfterUserId(t) ==
    \E ts \in Timestamps : Continue(t, "user", AfterUserId(tasks[t], ts))
ResumeGetCountryId(t) == Continue(t, "getCountryId", GetCountryIdCheck(tasks[t]))
ResumeAfterCountry(t) ==
    \E ts \in Timestamps :
       Continue(t, "country",
                AfterCountry([tasks[t] EXCEPT !.countryIdToUse = tasks[t].ret, !.ret = Absent], ts))
ResumeGetCurrency(t) == Continue(t, "getCurrency", GetCurrencyRead(tasks[t]))
ResumeAfterCurrency(t) ==
    \E ts \in Timestamps :
       Continue(t, "currency",
                Dispatch([tasks[t] EXCEPT !.currencyToUse = tasks[t].ret, !.ret = Absent], ts))

\* the response to POST /auth/login arrives
LoginResponse(t) ==
    /\ tasks[t].status = "running"
    /\ tasks[t].pc = "login"
    /\ \E r \in LoginResponses :
          /\ tasks' = [tasks EXCEPT ![t] = AuthenticateResponse(tasks[t], r)]
          /\ cachedUserId' = CacheAfterLogin(r)[1]
          /\ cachedCountryId' = CacheAfterLogin(r)[2]
          /\ cachedCurrency' = CacheAfterLogin(r)[3]
          /\ loginUsers' = IF LoginAccepted(r) THEN loginUsers \cup {r.user} ELSE loginUsers
    /\ UNCHANGED <<outerVars, clientVars, opsStarted, loginCount>>

\* the response to GET /feeds/{id} arrives
FeedResponse(t) ==
    /\ tasks[t].status = "running"
    /\ tasks[t].pc = "feed"
    /\ \E r \in FeedResponses : \E ts \in Timestamps :
          tasks' = [tasks EXCEPT ![t] = Detected(FeedLookupResponse(tasks[t], r), ts)]
    /\ UNCHANGED <<outerVars, clientVars, cacheVars, opsStarted, loginCount, loginUsers>>

\* the response to GET /feeds/?... arrives
SearchResponseArrives(t) ==
    /\ tasks[t].status = "running"
    /\ tasks[t].pc = "search"
    /\ \E r \in SearchResponses :
          tasks' = [tasks EXCEPT ![t] = SearchResponse(tasks[t], r)]
    /\ UNCHANGED <<outerVars, clientVars, cacheVars, opsStarted, loginCount, loginUsers>>

\* the response to GET /auth/countries arrives
CountriesResponseArrives(t) ==
    /\ tasks[t].status = "running"
    /\ tasks[t].pc = "countries"
    /\ \E r \in CountriesResponses :
          tasks' = [tasks EXCEPT ![t] = CountriesResponse(tasks[t], r)]
    /\ UNCHANGED <<outerVars, clientVars, cacheVars, opsStarted, loginCount, loginUsers>>

\* the response to POST /diet-...-working/ arrives
DietResponseArrives(t) ==
    /\ tasks[t].status = "running"
    /\ tasks[t].pc = "diet"
    /\ \E r \in DietResponses :
          tasks' = [tasks EXCEPT ![t] = DietResponse(tasks[t], r)]
    /\ UNCHANGED <<outerVars, clientVars, cacheVars, opsStarted, loginCount, loginUsers>>

\* the caller has consumed the settled promise; the slot is free again
Return(t) ==
    /\ tasks[t].status \in {"ok", "error"}
    /\ tasks' = [tasks EXCEPT ![t] = IdleTask]
    /\ UNCHANGED <<outerVars, clientVars, cacheVars, opsStarted, loginCount, loginUsers>>

Next ==
    \/ Construct
    \/ \E t \in Tasks : Call(t)
    \/ \E t \in Tasks : ResumeAfterUserId(t)
    \/ \E t \in Tasks : ResumeGetCountryId(t)
    \/ \E t \in Tasks : ResumeAfterCountry(t)
    \/ \E t \in Tasks : ResumeGetCurrency(t)
    \/ \E t \in Tasks : ResumeAfterCurrency(t)
    \/ \E t \in Tasks : LoginResponse(t)
    \/ \E t \in Tasks : FeedResponse(t)
    \/ \E t \in Tasks : SearchResponseArrives(t)
    \/ \E t \in Tasks : CountriesResponseArrives(t)
    \/ \E t \in Tasks : DietResponseArrives(t)
    \/ \E t \in Tasks : Return(t)

Spec == Init /\ [][Next]_vars

(* ======================================================================= *)
(* The tool-serving layer                                                  *)
(* ======================================================================= *)
\* X || undefined
OrUndefined(x) == IF Truthy(x) THEN x ELSE Absent

\* process.env: FEED_API_KEY, FEED_API_EMAIL, FEED_API_PIN, FEED_API_USER_ID,
\* FEED_API_COUNTRY_ID, each '' when unset
EnvConfigs ==
    [key : {"", "k0"}, email : {"", "e1"}, pin : {"", "p1"},
     userId : {"", "u9"}, countryId : {"", "c9"}]

Tools == {"evaluate_diet", "get_diet_recommendation", "get_feed_info", "search_feeds"}
\* validated tool parameters: the feed ids of params.feeds, feed_id, country_id
ToolParams == [feeds : {<<"f1", "f2">>}, feed_id : {"f1"}, country_id : SearchArgs]

NoPayload == [set |-> FALSE, isError |-> FALSE, result |-> Absent, message |-> <<>>]
\* a request without an Authorization header
NoHeader == [present |-> FALSE, bearer |-> FALSE, rest |-> ""]
\* one inbound POST /mcp: its Authorization header, the tools registered on
\* its McpServer, the tool it calls and the payload the handler returned
NoRequest ==
    [header |-> NoHeader, tools |-> {}, tool |-> "none", phase |-> "none", payload |-> NoPayload]

\* payload of the 'error' tool
ErrorToolPayload ==
    [set |-> TRUE, isError |-> TRUE, result |-> Absent,
     message |-> <<"Ration Smart API credentials not configured.">>]

\* the error field of a handler's error payload in the header-based server
ToolErrorTitle(tool) ==
    IF tool = "evaluate_diet" THEN "Diet evaluation failed"
    ELSE IF tool = "get_diet_recommendation" THEN "Diet recommendation failed"
    ELSE IF tool = "get_feed_info" THEN "Failed to get feed information"
    ELSE "Feed search failed"

\* the text before error.message in the environment-configured server
EnvToolErrorPrefix(tool) ==
    IF tool = "evaluate_diet" THEN "Failed to evaluate diet: "
    ELSE IF tool = "get_diet_recommendation" THEN "Failed to get diet recommendation: "
    ELSE IF tool = "get_feed_info" THEN "Failed to get feed info: "
    ELSE "Failed to search feeds: "

\* feeds.length of a list of feeds
ListLength(l) == IF l = "[]" THEN 0 ELSE 2

\* the value a handler serialises on success: the client's result, which
\* search_feeds puts next to its length
ToolResult(tool, r) ==
    IF tool = "search_feeds" THEN [count |-> ListLength(r), feeds |-> r] ELSE r

\* variant: the handler has no try/catch; the rejection leaves the handler
ToolPayloadNoCatch(kind, tool, s) ==
    IF s.status = "ok"
    THEN [set |-> TRUE, isError |-> FALSE, result |-> ToolResult(tool, s.result),
          message |-> <<>>]
    ELSE [set |-> FALSE, isError |-> FALSE, result |-> "thrown", message |-> s.error]

\* what a tool handler returns once the client call has settled: the result
\* as JSON text, or from the catch block an isError payload with the message
ToolPayload(kind, tool, s) ==
    IF s.status = "ok"
    THEN [set |-> TRUE, isError |-> FALSE, result |-> ToolResult(tool, s.result),
          message |-> <<>>]
    ELSE [set |-> TRUE, isError |-> TRUE, result |-> Absent,
          message |-> <<IF kind = "header" THEN ToolErrorTitle(tool)
                        ELSE EnvToolErrorPrefix(tool)>> \o s.error]

\* a client call as a handler makes it
Calling(op) == [IdleTask EXCEPT !.op = op, !.status = "running", !.pc = "start"]

\* the handler of the tool has settled: its payload goes to the transport
ToolDone(t) ==
    /\ srv.kind \in {"env", "header"}
    /\ srv.reqs[t].phase = "running"
    /\ tasks[t].status \in {"ok", "error"}
    /\ srv' = [srv EXCEPT !.reqs[t].phase = "done",
                          !.reqs[t].payload = ToolPayload(srv.kind, srv.reqs[t].tool,
                                                          tasks[t])]
    /\ UNCHANGED <<clientVars, cacheVars, tasks, opsStarted, loginCount, loginUsers, imp>>

(* ------------------------ the environment-configured server ------------ *)
\* the client call of each handler with its arguments in call order:
\* evaluateDiet(cattle, feeds, countryId, currency, userId)       603-609
\* getDietRecommendation(cattle, feeds, countryId, userId)        676-680
\* getFeedById(feed_id) 710, searchFeeds(params) 743-749
EnvToolInvocation(tool, e, p) ==
    IF tool = "evaluate_diet"
    THEN [Calling("evaluateDiet") EXCEPT !.feedIds = p.feeds,
             !.countryId = OrUndefined(e.countryId), !.currency = Absent,
             !.userId = OrUndefined(e.userId)]
    ELSE IF tool = "get_diet_recommendation"
    THEN [Calling("getDietRecommendation") EXCEPT !.feedIds = p.feeds,
             !.countryId = OrUndefined(e.userId), !.userId = Absent]
    ELSE IF tool = "get_feed_info"
    THEN [Calling("getFeedById") EXCEPT !.feedIds = <<p.feed_id>>]
    ELSE [Calling("searchFeeds") EXCEPT !.countryId = p.country_id]

\* the arguments of new FeedFormulationClient(...) at 487-494
EnvCtorArgs(e) ==
    [apiKey |-> OrUndefined(e.key), userEmail |-> OrUndefined(e.email),
     userPin |-> OrUndefined(e.pin)]

EnvInit ==
    /\ \E e \in EnvConfigs :
          /\ srv = [kind |-> "env", env |-> e, reqs |-> [t \in Tasks |-> NoRequest]]
          /\ ctorArgs = EnvCtorArgs(e)
    /\ phase = "new"
    /\ ctorError = Absent
    /\ apiKey = Absent /\ userEmail = Absent /\ userPin = Absent
    /\ cachedUserId = Absent /\ cachedCountryId = Absent /\ cachedCurrency = Absent
    /\ tasks = [t \in Tasks |-> IdleTask]
    /\ opsStarted = 0
    /\ loginCount = 0
    /\ loginUsers = {}
    /\ imp = NoImport

\* module load (487-494): the one client of the process, or null
EnvLoadModule ==
    /\ srv.kind = "env"
    /\ phase = "new"
    /\ LET e == srv.env
           c == Constructor(ctorArgs)
       IN  IF Truthy(e.key) \/ (Truthy(e.email) /\ Truthy(e.pin))
           THEN /\ phase' = IF c.ok THEN "ready" ELSE "failed"
                /\ ctorError' = c.error
                /\ apiKey' = c.apiKey
                /\ userEmail' = c.userEmail
                /\ userPin' = c.userPin
           ELSE /\ phase' = "none"
                /\ UNCHANGED <<ctorError, apiKey, userEmail, userPin>>
    /\ UNCHANGED <<ctorArgs, cacheVars, tasks, opsStarted, loginCount, loginUsers, outerVars>>

\* POST /mcp (520-760): with no client the 'error' tool is the only tool and
\* answers at once; otherwise the called tool's handler runs up to its await
EnvToolCall(t) ==
    /\ srv.kind = "env"
    /\ phase \in {"ready", "none"}
    /\ srv.reqs[t].phase = "none"
    /\ opsStarted < MaxOps
    /\ IF phase = "none"
       THEN /\ srv' = [srv EXCEPT !.reqs[t] =
                         [NoRequest EXCEPT !.tools = {"error"}, !.tool = "error",
                                           !.phase = "done", !.payload = ErrorToolPayload]]
            /\ UNCHANGED <<tasks, loginCount>>
       ELSE \E tool \in Tools : \E p \in ToolParams : \E ts \in Timestamps :
               LET inv == EnvToolInvocation(tool, srv.env, p)
                   s == Start([inv EXCEPT !.cacheAtCall = Truthy(cachedUserId)], ts)
               IN  /\ tasks' = [tasks EXCEPT ![t] = s]
                   /\ loginCount' = loginCount + Logins(s)
                   /\ srv' = [srv EXCEPT !.reqs[t] =
                                [NoRequest EXCEPT !.tools = Tools, !.tool = tool,
                                                  !.phase = "running"]]
    /\ opsStarted' = opsStarted + 1
    /\ UNCHANGED <<clientVars, cacheVars, loginUsers, imp>>

EnvNext ==
    \/ EnvLoadModule
    \/ \E t \in Tasks : EnvToolCall(t)
    \/ \E t \in Tasks : ResumeAfterUserId(t)
    \/ \E t \in Tasks : ResumeGetCountryId(t)
    \/ \E t \in Tasks : ResumeAfterCountry(t)
    \/ \E t \in Tasks : ResumeGetCurrency(t)
    \/ \E t \in Tasks : ResumeAfterCurrency(t)
    \/ \E t \in Tasks : LoginResponse(t)
    \/ \E t \in Tasks : FeedResponse(t)
    \/ \E t \in Tasks : SearchResponseArrives(t)
    \/ \E t \in Tasks : DietResponseArrives(t)
    \/ \E t \in Tasks : ToolDone(t)

SpecEnv == EnvInit /\ [][EnvNext]_vars

(* ------------------------ the header-based server ---------------------- *)
\* req.headers.authorization: none, or a text with or without the prefix
\* 'Bearer ' (rest is what follows the prefix, or the whole text)
Headers ==
    {NoHeader,
     [present |-> TRUE, bearer |-> TRUE, rest |-> "k1"],
     [present |-> TRUE, bearer |-> TRUE, rest |-> ""],
     [present |-> TRUE, bearer |-> FALSE, rest |-> "k2"]}

\* the fallback credentials of the process: FEED_API_KEY, FEED_API_EMAIL,
\* FEED_API_PIN
HdrEnvConfigs ==
    {[key |-> "", email |-> "", pin |-> ""],
     [key |-> "", email |-> "e1", pin |-> "p1"],
     [key |-> "k0", email |-> "e1", pin |-> "p1"]}

\* extractApiKeyFromRequest (33-45); the texts are modelled trimmed
ExtractApiKeyFromRequest(h) ==
    IF ~h.present THEN Absent
    ELSE IF h.bearer THEN h.rest
    ELSE h.rest

\* the fields of one FeedFormulationClient, or of no client (null)
NoClient ==
    [ctorArgs |-> [apiKey |-> Absent, userEmail |-> Absent, userPin |-> Absent],
     phase |-> "none", ctorError |-> Absent,
     apiKey |-> Absent, userEmail |-> Absent, userPin |-> Absent,
     cachedUserId |-> Absent, cachedCountryId |-> Absent, cachedCurrency |-> Absent]

\* new FeedFormulationClient(...) inside try/catch: a throw gives null
NewClient(args) ==
    LET c == Constructor(args)
    IN  IF c.ok
        THEN [NoClient EXCEPT !.ctorArgs = args, !.phase = "ready",
                              !.apiKey = c.apiKey, !.userEmail = c.userEmail,
                              !.userPin = c.userPin]
        ELSE NoClient

\* the client whose method is running: the fields `this` refers to
Registers ==
    [ctorArgs |-> ctorArgs, phase |-> phase, ctorError |-> ctorError,
     apiKey |-> apiKey, userEmail |-> userEmail, userPin |-> userPin,
     cachedUserId |-> cachedUserId, cachedCountryId |-> cachedCountryId,
     cachedCurrency |-> cachedCurrency]

\* variant: one client is created and kept for the requests that follow
CreateFeedClientCached(h, e) ==
    IF phase = "ready" THEN Registers
    ELSE IF Truthy(ExtractApiKeyFromRequest(h))
    THEN NewClient([apiKey |-> ExtractApiKeyFromRequest(h), userEmail |-> Absent,
                    userPin |-> Absent])
    ELSE IF Truthy(e.key)
    THEN NewClient([apiKey |-> e.key, userEmail |-> Absent, userPin |-> Absent])
    ELSE IF Truthy(e.email) /\ Truthy(e.pin)
    THEN NewClient([apiKey |-> Absent, userEmail |-> e.email, userPin |-> e.pin])
    ELSE NoClient

\* variant: the key of the environment is preferred to the key of the request
CreateFeedClientEnvFirst(h, e) ==
    IF Truthy(e.key)
    THEN NewClient([apiKey |-> e.key, userEmail |-> Absent, userPin |-> Absent])
    ELSE IF Truthy(ExtractApiKeyFromRequest(h))
    THEN NewClient([apiKey |-> ExtractApiKeyFromRequest(h), userEmail |-> Absent,
                    userPin |-> Absent])
    ELSE IF Truthy(e.email) /\ Truthy(e.pin)
    THEN NewClient([apiKey |-> Absent, userEmail |-> e.email, userPin |-> e.pin])
    ELSE NoClient

\* createFeedClient (50-83)
CreateFeedClient(h, e) ==
    IF Truthy(ExtractApiKeyFromRequest(h))
    THEN NewClient([apiKey |-> ExtractApiKeyFromRequest(h), userEmail |-> Absent,
                    userPin |-> Absent])
    ELSE IF Truthy(e.key)
    THEN NewClient([apiKey |-> e.key, userEmail |-> Absent, userPin |-> Absent])
    ELSE IF Truthy(e.email) /\ Truthy(e.pin)
    THEN NewClient([apiKey |-> Absent, userEmail |-> e.email, userPin |-> e.pin])
    ELSE NoClient

\* the client call of each handler: evaluateDiet(cattle, feeds, undefined,
\* undefined, undefined) 197-203, getDietRecommendation(cattle, feeds,
\* undefined, undefined) 282-287, getFeedById 328, searchFeeds 370-376
HdrToolInvocation(tool, p) ==
    IF tool = "evaluate_diet"
    THEN [Calling("evaluateDiet") EXCEPT !.feedIds = p.feeds]
    ELSE IF tool = "get_diet_recommendation"
    THEN [Calling("getDietRecommendation") EXCEPT !.feedIds = p.feeds]
    ELSE IF tool = "get_feed_info"
    THEN [Calling("getFeedById") EXCEPT !.feedIds = <<p.feed_id>>]
    ELSE [Calling("searchFeeds") EXCEPT !.countryId = p.country_id]

\* the client of request t: the running one, or the one kept for it
ClientOf(t) == IF srv.this = t THEN Registers ELSE srv.clients[t]

\* the clients kept aside once client c runs in place of the running one
Parked == IF srv.this \in Tasks THEN [srv.clients EXCEPT ![srv.this] = Registers]
          ELSE srv.clients

\* client c becomes the running client
Runs(c) ==
    /\ ctorArgs' = c.ctorArgs /\ phase' = c.phase /\ ctorError' = c.ctorError
    /\ apiKey' = c.apiKey /\ userEmail' = c.userEmail /\ userPin' = c.userPin
    /\ cachedUserId' = c.cachedUserId /\ cachedCountryId' = c.cachedCountryId
    /\ cachedCurrency' = c.cachedCurrency

HdrInit ==
    /\ \E e \in HdrEnvConfigs :
          srv = [kind |-> "header", env |-> e, this |-> 0,
                 clients |-> [t \in Tasks |-> NoClient],
                 reqs |-> [t \in Tasks |-> NoRequest]]
    /\ ctorArgs = NoClient.ctorArgs
    /\ phase = "none"
    /\ ctorError = Absent
    /\ apiKey = Absent /\ userEmail = Absent /\ userPin = Absent
    /\ cachedUserId = Absent /\ cachedCountryId = Absent /\ cachedCurrency = Absent
    /\ tasks = [t \in Tasks |-> IdleTask]
    /\ opsStarted = 0
    /\ loginCount = 0
    /\ loginUsers = {}
    /\ imp = NoImport

\* app.post('/mcp') 117-146 and 408-409: a request arrives, its client is
\* created from its header and the tools are registered on its own server;
\* requests are numbered in the order of their arrival
HdrInbound(t) ==
    /\ srv.kind = "header"
    /\ srv.reqs[t].phase = "none"
    /\ \A u \in Tasks : u < t => srv.reqs[u].phase # "none"
    /\ opsStarted < MaxOps
    /\ \E h \in Headers :
          LET c == CreateFeedClient(h, srv.env)
          IN  /\ Runs(c)
              /\ srv' = [srv EXCEPT
                           !.this = t,
                           !.clients = Parked,
                           !.reqs[t] = [NoRequest EXCEPT
                                           !.header = h,
                                           !.tools = IF c.phase = "none" THEN {"error"}
                                                     ELSE Tools,
                                           !.phase = "connected"]]
    /\ opsStarted' = opsStarted + 1
    /\ UNCHANGED <<tasks, loginCount, loginUsers, imp>>

\* a continuation of request t is the next to run: its closure's feedClient
\* is the client whose fields the code reads and writes from here on
HdrEnter(t) ==
    /\ srv.kind = "header"
    /\ srv.this # t
    /\ \/ srv.reqs[t].phase = "connected"
       \/ srv.reqs[t].phase = "running" /\ tasks[t].status = "running"
    /\ Runs(srv.clients[t])
    /\ srv' = [srv EXCEPT !.this = t, !.clients = Parked]
    /\ UNCHANGED <<tasks, opsStarted, loginCount, loginUsers, imp>>

\* transport.handleRequest (410) calls a registered tool: the handler runs
\* up to its await (the 'error' tool answers at once)
HdrToolCall(t) ==
    /\ srv.kind = "header"
    /\ srv.this = t
    /\ srv.reqs[t].phase = "connected"
    /\ IF srv.reqs[t].tools = {"error"}
       THEN /\ srv' = [srv EXCEPT !.reqs[t].tool = "error", !.reqs[t].phase = "done",
                                  !.reqs[t].payload = ErrorToolPayload]
            /\ UNCHANGED <<tasks, loginCount>>
       ELSE \E tool \in srv.reqs[t].tools : \E p \in ToolParams : \E ts \in Timestamps :
               LET inv == HdrToolInvocation(tool, p)
                   s == Start([inv EXCEPT !.cacheAtCall = Truthy(cachedUserId)], ts)
               IN  /\ tasks' = [tasks EXCEPT ![t] = s]
                   /\ loginCount' = loginCount + Logins(s)
                   /\ srv' = [srv EXCEPT !.reqs[t].tool = tool, !.reqs[t].phase = "running"]
    /\ UNCHANGED <<clientVars, cacheVars, opsStarted, loginUsers, imp>>

HdrNext ==
    \/ \E t \in Tasks : HdrInbound(t)
    \/ \E t \in Tasks : HdrEnter(t)
    \/ \E t \in Tasks : HdrToolCall(t)
    \/ \E t \in Tasks : srv.this = t /\ ResumeAfterUserId(t)
    \/ \E t \in Tasks : srv.this = t /\ ResumeGetCountryId(t)
    \/ \E t \in Tasks : srv.this = t /\ ResumeAfterCountry(t)
    \/ \E t \in Tasks : srv.this = t /\ ResumeGetCurrency(t)
    \/ \E t \in Tasks : srv.this = t /\ ResumeAfterCurrency(t)
    \/ \E t \in Tasks : srv.this = t /\ LoginResponse(t)
    \/ \E t \in Tasks : srv.this = t /\ FeedResponse(t)
    \/ \E t \in Tasks : srv.this = t /\ SearchResponseArrives(t)
    \/ \E t \in Tasks : srv.this = t /\ DietResponseArrives(t)
    \/ \E t \in Tasks : ToolDone(t)

SpecHdr == HdrInit /\ [][HdrNext]_vars

(* ======================================================================= *)
(* scripts/import-ethiopia-feeds.js: uploadFeeds                           *)
(* ======================================================================= *)
MaxFeeds == 4                  \* feeds handed to uploadFeeds: 0..MaxFeeds
SmallBatch == 2                \* a batch size small enough for several batches
BATCH_SIZE == 50
BatchSizes == {SmallBatch, BATCH_SIZE}
Feeds(n) == 1..n
\* ADMIN_USER_ID and ETHIOPIA_COUNTRY_ID: unset, or set
AdminUserIds == {"", "admin1"}
EthiopiaCountryIds == {"", "et1"}
\* how an upload ends: success body, non-success status with a body,
\* rejected fetch, or a body that is not JSON
UploadResponses == {"ok", "http", "neterr", "badjson"}

Min(a, b) == IF a < b THEN a ELSE b
\* feeds.slice(i, i + BATCH_SIZE), as the set of feed numbers (i is 0-based)
Batch(m) == {f \in Feeds(m.n) : m.i < f /\ f <= Min(m.i + m.batchSize, m.n)}
\* batchIndex of feed f in its batch
BatchIndex(m, f) == f - m.i - 1

\* variant: the callback has no try/catch, a failed upload rejects
UploadOutcomeNoCatch(resp) == IF resp = "ok" THEN "success" ELSE "thrown"

\* the value the map callback's promise settles with (215-228)
UploadOutcome(resp) == IF resp = "ok" THEN "success" ELSE "failure"

\* everything but the import script
importFrame == <<clientVars, cacheVars, tasks, opsStarted, loginCount, loginUsers, srv>>

\* uploadFeeds 170-200: the two configuration checks, then the first batch
\* (or the summary when there is no feed)
ImportInit ==
    /\ imp \in [n : 0..MaxFeeds, batchSize : BatchSizes,
                admin : AdminUserIds, country : EthiopiaCountryIds,
                pc : {"start"}, i : {0},
                sent : {[f \in 1..MaxFeeds |-> 0]},
                state : {[f \in 1..MaxFeeds |-> "none"]},
                timers : {0}, successCount : {0}, failCount : {0},
                failedFeeds : {<<>>}, ret : {Absent}]

\* the summary object returned at 269-275
Summary(m) ==
    [success |-> (m.failCount = 0), total |-> m.n,
     successful |-> m.successCount, failed |-> m.failCount,
     failedFeeds |-> SubSeq(m.failedFeeds, 1, Min(Len(m.failedFeeds), 20))]

\* 192-229: a loop iteration up to the await on Promise.all.  batch.map runs
\* every callback up to its first await, the fetch, before it returns, so
\* the requests of the whole batch are sent here.  When the loop condition
\* fails, the summary (258-275).
EnterBatch(m) ==
    IF m.i < m.n
    THEN [m EXCEPT !.pc = "batch", !.timers = 0,
                   !.sent = [f \in 1..MaxFeeds |->
                               IF f \in Batch(m) THEN m.sent[f] + 1 ELSE m.sent[f]],
                   !.state = [f \in 1..MaxFeeds |->
                               IF f \in Batch(m) THEN "pending" ELSE m.state[f]]]
    ELSE [m EXCEPT !.pc = "returned", !.ret = Summary(m)]

\* uploadFeeds is called (170-177 throw when the configuration is missing)
ImportStart ==
    /\ imp.pc = "start"
    /\ imp' = IF ~Truthy(imp.admin) \/ ~Truthy(imp.country)
              THEN [imp EXCEPT !.pc = "threw", !.ret = "environment variable is required"]
              ELSE EnterBatch(imp)
    /\ UNCHANGED importFrame

\* the response to POST /admin/add-feed of feed f arrives (207-228)
UploadResponse(f) ==
    /\ imp.pc = "batch"
    /\ imp.state[f] = "pending"
    /\ \E resp \in UploadResponses :
          imp' = [imp EXCEPT !.state[f] = UploadOutcome(resp)]
    /\ UNCHANGED importFrame

\* the timer of the next wrapper promise fires (233-236): setTimeout with
\* idx * 100 ms, so the timers of a batch fire in the order of idx
TimerFires ==
    /\ imp.pc = "batch"
    /\ imp.timers < Cardinality(Batch(imp))
    /\ imp' = [imp EXCEPT !.timers = @ + 1]
    /\ UNCHANGED importFrame

\* feeds of the batch in order, with the outcome each promise settled with
RECURSIVE Tally(_, _, _)
Tally(m, fs, acc) ==
    IF fs = {} THEN acc
    ELSE LET f == CHOOSE x \in fs : \A y \in fs : x <= y
             a == IF m.state[f] = "success"
                  THEN [acc EXCEPT !.successCount = @ + 1]
                  ELSE [acc EXCEPT !.failCount = @ + 1,
                                   !.failedFeeds = Append(@, f)]
         IN  Tally(m, fs \ {f}, a)

\* Promise.all has settled (232-255): a rejected promise rejects it and
\* uploadFeeds throws; otherwise the results are counted and the loop goes on
BatchSettled ==
    /\ imp.pc = "batch"
    /\ imp.timers = Cardinality(Batch(imp))
    /\ \A f \in Batch(imp) : imp.state[f] \in {"success", "failure", "thrown"}
    /\ imp' = IF \E f \in Batch(imp) : imp.state[f] = "thrown"
              THEN [imp EXCEPT !.pc = "threw", !.ret = "upload failed"]
              ELSE LET c == Tally(imp, Batch(imp), imp)
                   IN  IF imp.i + imp.batchSize < imp.n
                       THEN [c EXCEPT !.pc = "pause"]
                       ELSE [c EXCEPT !.pc = "returned", !.i = imp.i + imp.batchSize,
                                      !.ret = Summary(c)]
    /\ UNCHANGED importFrame

\* the 1000 ms pause between batches is over (253-255, then 192-229)
NextBatch ==
    /\ imp.pc = "pause"
    /\ imp' = EnterBatch([imp EXCEPT !.i = imp.i + imp.batchSize])
    /\ UNCHANGED importFrame

ImportNext ==
    \/ ImportStart
    \/ \E f \in 1..MaxFeeds : UploadResponse(f)
    \/ TimerFires
    \/ BatchSettled
    \/ NextBatch

SpecImportInit ==
    /\ ImportInit
    /\ ctorArgs = [apiKey |-> Absent, userEmail |-> Absent, userPin |-> Absent]
    /\ phase = "new"
    /\ ctorError = Absent
    /\ apiKey = Absent /\ userEmail = Absent /\ userPin = Absent
    /\ cachedUserId = Absent /\ cachedCountryId = Absent /\ cachedCurrency = Absent
    /\ tasks = [t \in Tasks |-> IdleTask]
    /\ opsStarted = 0
    /\ loginCount = 0
    /\ loginUsers = {}
    /\ srv = NoServer

SpecImport == SpecImportInit /\ [][ImportNext]_vars

(* ======================================================================= *)
(* Properties                                                              *)
(* ======================================================================= *)
EmailPinMode == phase = "ready" /\ ~Truthy(apiKey)
ApiKeyMode == phase = "ready" /\ Truthy(apiKey)
Started(t) == tasks[t].status # "idle"
Finished(t) == tasks[t].status \in {"ok", "error"}
DietOps == {"getDietRecommendation", "evaluateDiet"}
IsDietCall(c) == c.ep \in {"rec", "eval"}
HasCall(t, ep) == \E i \in 1..Len(tasks[t].calls) : tasks[t].calls[i].ep = ep
NoDietCall(t) == \A i \in 1..Len(tasks[t].calls) : ~IsDietCall(tasks[t].calls[i])
LastCall(t) == tasks[t].calls[Len(tasks[t].calls)]

C2_SecondAuthenticateCached ==
    [][\A a, b \in Tasks :
          (/\ a # b
           /\ opsStarted = 1
           /\ tasks[a].op = "getUserId" /\ tasks[a].status = "ok"
           /\ tasks[b].status = "idle"
           /\ tasks'[b].op = "getUserId")
          => (/\ loginCount = 1 /\ loginCount' = 1
              /\ tasks'[b].status = "ok"
              /\ tasks'[b].result = tasks[a].result
              /\ Truthy(tasks'[b].result)
              /\ tasks'[b].calls = <<>>)]_vars

C2_Witness ==
    /\ opsStarted = 2
    /\ loginCount = 1
    /\ \E a, b \in Tasks :
          /\ a # b
          /\ tasks[a].op = "getUserId" /\ tasks[a].status = "ok"
          /\ Len(tasks[a].calls) = 1 /\ tasks[a].calls[1].ep = "login"
          /\ tasks[b].op = "getUserId" /\ tasks[b].status = "ok"
          /\ tasks[b].cacheAtCall /\ tasks[b].calls = <<>>
          /\ tasks[b].result = tasks[a].result

CacheOf(u) == <<u.id, u.country_id, OrElse(u.currency, DefaultCurrency)>>

\* what a successful invocation returned or dispatched is taken from identity u
UsesIdentity(t, u) ==
    LET s == tasks[t]
    IN  /\ (s.status = "ok" /\ s.op = "getUserId") => s.result = u.id
        /\ (s.status = "ok" /\ s.op = "getCountryId") => s.result = u.country_id
        /\ (s.status = "ok" /\ s.op = "getCurrency") => s.result = CacheOf(u)[3]
        /\ \A i \in 1..Len(s.calls) :
              IsDietCall(s.calls[i]) =>
                 /\ s.calls[i].user_id = u.id
                 /\ s.calls[i].country_id = OrElse(s.countryId, u.country_id)
                 /\ s.calls[i].ep = "eval" =>
                       s.calls[i].currency = OrElse(s.currency, CacheOf(u)[3])

\* C3: when every accepted login has carried the same identity u, the cache
\* holds exactly the fields of u (what running the operations one after
\* another leaves there), whatever the interleaving, and every successful
\* operation returned or dispatched the fields of u.
C3_BenignRace ==
    \A u \in Users :
       loginUsers = {u} =>
          /\ <<cachedUserId, cachedCountryId, cachedCurrency>> = CacheOf(u)
          /\ \A t \in Tasks : UsesIdentity(t, u)

\* two invocations raced: both logged in, one login was accepted before the
\* other was answered, and both have finished
C3_Witness ==
    /\ loginCount = 2
    /\ Cardinality(loginUsers) = 1
    /\ \A t \in Tasks :
          /\ Finished(t)
          /\ ~tasks[t].cacheAtCall
          /\ HasCall(t, "login")
    /\ \E t \in Tasks : tasks[t].status = "ok" /\ tasks[t].op \in DietOps

\* C4: when the API key is absent or empty and the email+PIN pair is not
\* complete, construction fails with the missing-credentials error and no
\* client exists: nothing is stored and no operation ever runs.
C4_MissingCredentials ==
    (/\ phase # "new"
     /\ ~Truthy(ctorArgs.apiKey)
     /\ ~(Truthy(ctorArgs.userEmail) /\ Truthy(ctorArgs.userPin)))
    => (/\ phase = "failed"
        /\ ctorError = MissingCredentials
        /\ apiKey = Absent /\ userEmail = Absent /\ userPin = Absent
        /\ opsStarted = 0
        /\ \A t \in Tasks : ~Started(t))

C4_Witness ==
    /\ phase = "failed"
    /\ ctorError = MissingCredentials
    /\ ~Truthy(ctorArgs.apiKey)
    /\ Truthy(ctorArgs.userEmail) /\ ~Truthy(ctorArgs.userPin)

\* C5: a client constructed with an API key and an email+PIN pair is in
\* API-key mode; its getUserId and getCountryId reject at the call with the
\* unsupported-operation error and it never issues a login request.
C5_BothPrefersApiKey ==
    (/\ phase # "new"
     /\ Truthy(ctorArgs.apiKey) /\ Truthy(ctorArgs.userEmail) /\ Truthy(ctorArgs.userPin))
    => (/\ phase = "ready"
        /\ apiKey = ctorArgs.apiKey
        /\ loginCount = 0
        /\ \A t \in Tasks :
              /\ ~HasCall(t, "login")
              /\ (Started(t) /\ tasks[t].op = "getUserId") =>
                    /\ tasks[t].status = "error"
                    /\ tasks[t].error = UserIdUnsupported
                    /\ tasks[t].calls = <<>>
              /\ (Started(t) /\ tasks[t].op = "getCountryId") =>
                    /\ tasks[t].status = "error"
                    /\ tasks[t].error = CountryIdUnsupported
                    /\ tasks[t].calls = <<>>)

C5_Witness ==
    /\ Truthy(ctorArgs.apiKey) /\ Truthy(ctorArgs.userEmail) /\ Truthy(ctorArgs.userPin)
    /\ \E a, b \in Tasks :
          /\ tasks[a].op = "getUserId" /\ tasks[a].error = UserIdUnsupported
          /\ tasks[b].op = "getCountryId" /\ tasks[b].error = CountryIdUnsupported

\* the feed lookup of invocation t returned a record with a country reference
LookupGaveCountry(t) ==
    /\ Len(tasks[t].calls) >= 1
    /\ tasks[t].calls[1].ep = "feed"
    /\ tasks[t].calls[1].resp = "ok"
    /\ Truthy(tasks[t].calls[1].val)

C7_ExplicitCountryNoDetection ==
    \A t \in Tasks :
       (/\ EmailPinMode
        /\ Started(t)
        /\ tasks[t].op = "getDietRecommendation"
        /\ Truthy(tasks[t].countryId))
       => LET c == tasks[t].calls
          IN  /\ ~HasCall(t, "feed")
              /\ Len(c) <= 2
              /\ tasks[t].cacheAtCall =>
                    /\ Len(c) <= 1
                    /\ Len(c) = 1 => c[1].ep = "rec"
                    /\ Len(c) = 0 => tasks[t].pc = "user"
              /\ ~tasks[t].cacheAtCall =>
                    /\ Len(c) >= 1 /\ c[1].ep = "login"
                    /\ Len(c) = 2 => (c[2].ep = "rec" /\ Truthy(c[1].val))
              /\ \A i \in 1..Len(c) :
                    c[i].ep = "rec" => c[i].country_id = tasks[t].countryId
              /\ tasks[t].status = "ok" =>
                    (LastCall(t).ep = "rec" /\ tasks[t].result = LastCall(t).val)

\* one invocation logged in and then sent the recommendation request; the
\* other found the cache populated and sent the recommendation request only
C7_Witness ==
    /\ EmailPinMode
    /\ \E a, b \in Tasks :
          /\ tasks[a].op = "getDietRecommendation" /\ tasks[b].op = "getDietRecommendation"
          /\ Truthy(tasks[a].countryId) /\ Truthy(tasks[b].countryId)
          /\ tasks[a].status = "ok" /\ tasks[b].status = "ok"
          /\ ~tasks[a].cacheAtCall /\ Len(tasks[a].calls) = 2
          /\ tasks[b].cacheAtCall /\ Len(tasks[b].calls) = 1

\* C8: every request to a diet endpoint carries a non-empty country id.  A
\* diet operation that gets no country (none given and none detected in
\* API-key mode, none given and none in the authenticated identity in
\* email+PIN mode) fails with an error and calls no diet endpoint.
C8_CountryResolvedBeforeDispatch ==
    \A t \in Tasks :
       LET s == tasks[t]
       IN  /\ \A i \in 1..Len(s.calls) :
                 IsDietCall(s.calls[i]) => Truthy(s.calls[i].country_id)
           /\ (s.op \in DietOps /\ Finished(t) /\ NoDietCall(t)) => s.status = "error"
           /\ (/\ ApiKeyMode /\ s.op \in DietOps /\ Finished(t)
               /\ ~Truthy(s.countryId) /\ ~LookupGaveCountry(t))
              => (s.status = "error" /\ s.error = CountryRequired /\ NoDietCall(t))
           /\ (/\ EmailPinMode /\ s.op \in DietOps /\ Finished(t)
               /\ ~Truthy(s.countryId)
               /\ \A u \in loginUsers : ~Truthy(u.country_id))
              => (s.status = "error" /\ NoDietCall(t))
           /\ s.error = CountryIdNotAvailable => NoDietCall(t)

\* detection was attempted, the record had no country, the operation failed
C8_Witness ==
    /\ ApiKeyMode
    /\ \E t \in Tasks :
          /\ tasks[t].op \in DietOps
          /\ ~Truthy(tasks[t].countryId)
          /\ Len(tasks[t].calls) = 1
          /\ tasks[t].calls[1].resp = "ok" /\ ~Truthy(tasks[t].calls[1].val)
          /\ tasks[t].status = "error" /\ tasks[t].error = CountryRequired

\* C9: detectCountryFromFeeds never throws.  When its feed lookup fails
\* (network error or non-success status) it returns null; inside a diet
\* operation the failure surfaces as the missing-country error, never as the
\* lookup's own error.
C9_DetectionFailsSoft ==
    \A t \in Tasks :
       LET s == tasks[t]
           lookupFailed == /\ Len(s.calls) >= 1
                           /\ s.calls[1].ep = "feed"
                           /\ s.calls[1].resp \in {"neterr"} \cup BadStatuses
       IN  /\ (Started(t) /\ s.op = "detectCountryFromFeeds") => s.status # "error"
           /\ (s.op = "detectCountryFromFeeds" /\ lookupFailed)
              => (s.status = "ok" /\ s.result = Absent)
           /\ (s.op \in DietOps /\ lookupFailed)
              => (s.status = "error" /\ s.error = CountryRequired)

C9_Witness ==
    \E a, b \in Tasks :
       /\ tasks[a].op = "detectCountryFromFeeds" /\ tasks[b].op = "detectCountryFromFeeds"
       /\ tasks[a].status = "ok" /\ tasks[b].status = "ok"
       /\ tasks[a].result = Absent /\ tasks[b].result = Absent
       /\ Len(tasks[a].calls) = 1 /\ tasks[a].calls[1].resp = "neterr"
       /\ Len(tasks[b].calls) = 1 /\ tasks[b].calls[1].resp \in BadStatuses

\* C10: detectCountryFromFeeds with an empty id list returns null and sends
\* no request, in API-key mode and in email+PIN mode.
C10_EmptyListNoCall ==
    \A t \in Tasks :
       (/\ Started(t)
        /\ tasks[t].op = "detectCountryFromFeeds"
        /\ tasks[t].feedIds = <<>>)
       => (/\ tasks[t].status = "ok"
           /\ tasks[t].result = Absent
           /\ tasks[t].calls = <<>>)

C10_Witness ==
    /\ EmailPinMode
    /\ \E t \in Tasks :
          /\ tasks[t].op = "detectCountryFromFeeds"
          /\ tasks[t].feedIds = <<>>
          /\ tasks[t].status = "ok" /\ tasks[t].result = Absent
          /\ tasks[t].calls = <<>>

\* C11: detectCountryFromFeeds with a non-empty id list sends exactly one
\* feed lookup, for the first id, whatever the length of the list and whatever
\* the record holds; it returns the record's country reference, or null when
\* the record has none (or the lookup failed).  Detection inside a diet
\* operation looks the same single id up.
C11_OneLookupFirstId ==
    \A t \in Tasks :
       LET s == tasks[t]
       IN  /\ (Started(t) /\ s.op = "detectCountryFromFeeds" /\ s.feedIds # <<>>)
              => (/\ Len(s.calls) = 1
                  /\ s.calls[1].ep = "feed"
                  /\ s.calls[1].id = s.feedIds[1]
                  /\ Finished(t) =>
                        /\ s.status = "ok"
                        /\ s.result = IF s.calls[1].resp = "ok" /\ Truthy(s.calls[1].val)
                                      THEN s.calls[1].val ELSE Absent)
           /\ (s.op \in DietOps \cup {"detectCountryFromFeeds"})
              => \A i \in 1..Len(s.calls) :
                    s.calls[i].ep = "feed" => (i = 1 /\ s.calls[i].id = s.feedIds[1])

\* a two-id list whose first record has no country gave null after one
\* lookup, and a two-id list whose first record has one gave that country
C11_Witness ==
    \E a, b \in Tasks :
       /\ tasks[a].op = "detectCountryFromFeeds" /\ tasks[b].op = "detectCountryFromFeeds"
       /\ tasks[a].feedIds = <<"f1", "f2">> /\ tasks[b].feedIds = <<"f1", "f2">>
       /\ tasks[a].status = "ok" /\ tasks[b].status = "ok"
       /\ Len(tasks[a].calls) = 1 /\ Len(tasks[b].calls) = 1
       /\ tasks[a].calls[1].resp = "ok" /\ tasks[a].calls[1].val = ""
       /\ tasks[a].result = Absent
       /\ tasks[b].calls[1].id = "f1" /\ tasks[b].result = "c1"

\* the text x is part of the message msg
Contains(msg, x) == \E i \in 1..Len(msg) : msg[i] = x

\* the last request of invocation t got a non-success response that the
\* operation does not handle itself (detectCountryFromFeeds catches the
\* failure of its own lookup)
GotNonSuccess(t) ==
    /\ tasks[t].calls # <<>>
    /\ LastCall(t).resp \in BadStatuses
    /\ LastCall(t).ep = "feed" => tasks[t].op = "getFeedById"

\* C12 (as stated): an operation that receives a non-success response
\* (getCountries, getFeedById, searchFeeds, getDietRecommendation,
\* evaluateDiet, login) throws an error that carries the response status and
\* the raw response body.
C12_ErrorCarriesStatusAndBody ==
    \A t \in Tasks :
       GotNonSuccess(t)
       => (/\ tasks[t].status = "error"
           /\ Contains(tasks[t].error, LastCall(t).resp)
           /\ Contains(tasks[t].error, LastCall(t).val))

\* C12 (amended): an operation that receives a non-success response throws
\* an error that carries the response status.  The raw response body is
\* carried by the errors of getDietRecommendation and evaluateDiet only; the
\* errors of getCountries, getFeedById and searchFeeds stop at the status and
\* the login error carries the status and the status text.
C12_ErrorCarriesStatus ==
    \A t \in Tasks :
       GotNonSuccess(t)
       => (/\ tasks[t].status = "error"
           /\ Contains(tasks[t].error, LastCall(t).resp)
           /\ Contains(tasks[t].error, LastCall(t).val) <=> IsDietCall(LastCall(t))
           /\ LastCall(t).ep = "login" =>
                 Contains(tasks[t].error, StatusText(LastCall(t).resp)))

\* a search failed with an error without the body and a diet evaluation
\* failed with an error holding status and body
C12_Witness ==
    \E a, b \in Tasks :
       /\ tasks[a].op = "searchFeeds" /\ tasks[a].status = "error"
       /\ tasks[a].calls # <<>> /\ tasks[b].calls # <<>>
       /\ LastCall(a).resp \in BadStatuses /\ LastCall(a).val \in ErrorBodies
       /\ ~Contains(tasks[a].error, LastCall(a).val)
       /\ tasks[b].op = "evaluateDiet" /\ tasks[b].status = "error"
       /\ LastCall(b).ep = "eval"
       /\ LastCall(b).resp \in BadStatuses /\ LastCall(b).val \in ErrorBodies
       /\ Contains(tasks[b].error, LastCall(b).val)
       /\ Contains(tasks[b].error, LastCall(b).resp)

\* C13: getFeedById, on a non-success response, throws (it returns no
\* record) an error whose message contains the word "feed" and the status
\* code of the response.
C13_FeedErrorNamesFeedAndStatus ==
    \A t \in Tasks :
       (/\ tasks[t].op = "getFeedById"
        /\ tasks[t].calls # <<>>
        /\ LastCall(t).resp \in BadStatuses)
       => (/\ tasks[t].status = "error"
           /\ tasks[t].result = Absent
           /\ Len(tasks[t].calls) = 1
           /\ Contains(tasks[t].error, "feed")
           /\ Contains(tasks[t].error, LastCall(t).resp))

C13_Witness ==
    \E t \in Tasks :
       /\ tasks[t].op = "getFeedById"
       /\ tasks[t].status = "error"
       /\ tasks[t].calls # <<>>
       /\ LastCall(t).ep = "feed" /\ LastCall(t).id = "f1"
       /\ LastCall(t).resp = "500"
       /\ tasks[t].error = <<"Failed to get ", "feed", ": ", "500">>

\* invocation t is a searchFeeds that got a success response
SearchAnswered(t) ==
    /\ tasks[t].op = "searchFeeds"
    /\ tasks[t].calls # <<>>
    /\ LastCall(t).resp = "ok"

\* C14: searchFeeds returns the list L the backend sent, whether the body
\* was the bare array L or an object whose feeds member is L; two searches
\* answered with the same list in different forms return the same value.
C14_SearchSameListBothShapes ==
    /\ \A t \in Tasks :
          SearchAnswered(t)
          => (/\ tasks[t].status = "ok"
              /\ LastCall(t).shape \in {"array", "envelope"}
              /\ tasks[t].result \in FeedLists
              /\ tasks[t].result = LastCall(t).val)
    /\ \A a, b \in Tasks :
          (SearchAnswered(a) /\ SearchAnswered(b) /\ LastCall(a).val = LastCall(b).val)
          => tasks[a].result = tasks[b].result

\* one search was answered with a bare array and one with an envelope
\* holding the same list
C14_Witness ==
    \E a, b \in Tasks :
       /\ SearchAnswered(a) /\ SearchAnswered(b)
       /\ LastCall(a).shape = "array" /\ LastCall(b).shape = "envelope"
       /\ LastCall(a).val = "[f1,f2]" /\ LastCall(b).val = "[f1,f2]"
       /\ tasks[a].result = "[f1,f2]" /\ tasks[b].result = "[f1,f2]"

\* C15: in email+PIN mode the user_id of a diet request is the user id of an
\* identity the backend authenticated this client as (the one this
\* invocation's own login returned, when it logged in), never the explicit
\* userId argument; country_id is the explicit countryId when one is given
\* and the authenticated identity's country otherwise, and the currency of an
\* evaluation is the explicit currency when one is given and the cached
\* currency otherwise.
C15_EmailPinUserIdFromIdentity ==
    \A t \in Tasks :
       LET s == tasks[t]
       IN  \A i \in 1..Len(s.calls) :
              (EmailPinMode /\ IsDietCall(s.calls[i]))
              => (/\ s.calls[i].user_id \in {u.id : u \in loginUsers}
                  /\ s.calls[1].ep = "login" => s.calls[i].user_id = s.calls[1].val
                  /\ Truthy(s.countryId) => s.calls[i].country_id = s.countryId
                  /\ ~Truthy(s.countryId) =>
                        s.calls[i].country_id \in {u.country_id : u \in loginUsers}
                  /\ s.calls[i].ep = "eval" =>
                        /\ Truthy(s.currency) => s.calls[i].currency = s.currency
                        /\ ~Truthy(s.currency) =>
                              s.calls[i].currency \in {CacheOf(u)[3] : u \in loginUsers})

\* an evaluation given userId, countryId and currency was dispatched with
\* the authenticated user id and the given country and currency
C15_Witness ==
    /\ EmailPinMode
    /\ \E t \in Tasks :
          /\ tasks[t].op = "evaluateDiet"
          /\ tasks[t].userId = "u9" /\ tasks[t].countryId = "c9" /\ tasks[t].currency = "EUR"
          /\ tasks[t].status = "ok"
          /\ Len(tasks[t].calls) = 2
          /\ tasks[t].calls[2].ep = "eval"
          /\ tasks[t].calls[2].user_id = "u1"
          /\ tasks[t].calls[2].country_id = "c9"
          /\ tasks[t].calls[2].currency = "EUR"

\* C16: in API-key mode a diet request carries the explicit userId when one
\* is given and the all-zero service-account id otherwise, and an evaluation
\* request carries the explicit currency when one is given and 'USD'
\* otherwise.  Neither value costs a request: the only request that can
\* precede the diet request is the feed lookup of country detection.
C16_ApiKeyIdentityPerCall ==
    \A t \in Tasks :
       LET s == tasks[t]
       IN  \A i \in 1..Len(s.calls) :
              (ApiKeyMode /\ IsDietCall(s.calls[i]))
              => (/\ s.calls[i].user_id =
                        IF Truthy(s.userId) THEN s.userId
                        ELSE "00000000-0000-0000-0000-000000000000"
                  /\ s.calls[i].ep = "eval" =>
                        s.calls[i].currency =
                           IF Truthy(s.currency) THEN s.currency ELSE "USD"
                  /\ s.calls[i].ep = "rec" => s.calls[i].currency = Absent
                  /\ i = Len(s.calls) /\ i <= 2
                  /\ i = 2 => (s.calls[1].ep = "feed" /\ ~Truthy(s.countryId)))

\* one evaluation went out with the given userId and currency, another with
\* the service account and USD, each as the only request of its operation
C16_Witness ==
    /\ ApiKeyMode
    /\ \E a, b \in Tasks :
          /\ tasks[a].op = "evaluateDiet" /\ tasks[b].op = "evaluateDiet"
          /\ tasks[a].userId = "u9" /\ tasks[a].currency = "EUR"
          /\ ~Truthy(tasks[b].userId) /\ ~Truthy(tasks[b].currency)
          /\ Len(tasks[a].calls) = 1 /\ Len(tasks[b].calls) = 1
          /\ tasks[a].calls[1].user_id = "u9" /\ tasks[a].calls[1].currency = "EUR"
          /\ tasks[b].calls[1].user_id = ServiceAccountUserId
          /\ tasks[b].calls[1].currency = "USD"

\* C17: in API-key mode a diet operation given a countryId looks no feed up:
\* its one request is the diet request, sent at the call with that country
\* id.  A diet operation looks a feed up only when it was given no countryId.
C17_ExplicitCountrySkipsDetection ==
    \A t \in Tasks :
       LET s == tasks[t]
       IN  /\ (ApiKeyMode /\ Started(t) /\ s.op \in DietOps /\ Truthy(s.countryId))
              => (/\ ~HasCall(t, "feed")
                  /\ Len(s.calls) = 1
                  /\ IsDietCall(s.calls[1])
                  /\ s.calls[1].ep = DietEndpoint(s.op)
                  /\ s.calls[1].country_id = s.countryId)
           /\ (s.op \in DietOps /\ HasCall(t, "feed")) => ~Truthy(s.countryId)

\* a recommendation given a country and feed ids was answered after one
\* request, while one given the same feed ids and no country looked f1 up
C17_Witness ==
    /\ ApiKeyMode
    /\ \E a, b \in Tasks :
          /\ tasks[a].op = "getDietRecommendation" /\ tasks[b].op = "getDietRecommendation"
          /\ tasks[a].countryId = "c9" /\ tasks[a].feedIds = <<"f1", "f2">>
          /\ tasks[a].status = "ok"
          /\ Len(tasks[a].calls) = 1 /\ tasks[a].calls[1].country_id = "c9"
          /\ ~Truthy(tasks[b].countryId) /\ tasks[b].feedIds = <<"f1", "f2">>
          /\ HasCall(b, "feed")

\* C18: on a client constructed with an API key the cache fields stay null
\* in every state and no operation sends a login request.
C18_ApiKeyCacheStaysEmpty ==
    (phase = "ready" /\ Truthy(ctorArgs.apiKey))
    => (/\ cachedUserId = Absent
        /\ cachedCountryId = Absent
        /\ cachedCurrency = Absent
        /\ loginCount = 0
        /\ loginUsers = {}
        /\ \A t \in Tasks : ~HasCall(t, "login"))

\* an API-key client has completed getCurrency and a diet evaluation
C18_Witness ==
    /\ phase = "ready" /\ Truthy(ctorArgs.apiKey)
    /\ opsStarted = 2
    /\ cachedUserId = Absent /\ cachedCurrency = Absent
    /\ \E a, b \in Tasks :
          /\ tasks[a].op = "getCurrency" /\ tasks[a].status = "ok"
          /\ tasks[a].result = "USD"
          /\ tasks[b].op = "evaluateDiet" /\ tasks[b].status = "ok"

\* the login of invocation t was refused: it got a non-success status, or a
\* success body without the success flag or without the user object
LoginRefused(t) ==
    /\ tasks[t].calls # <<>>
    /\ tasks[t].calls[1].ep = "login"
    /\ \/ tasks[t].calls[1].resp \in BadStatuses
       \/ tasks[t].calls[1].resp = "ok" /\ ~Truthy(tasks[t].calls[1].val)

\* C19: an operation whose login was refused fails with an authentication
\* error; the login is its only request, so it dispatches no diet request.
C19_RefusedLoginFailsOperation ==
    \A t \in Tasks :
       LoginRefused(t)
       => (/\ tasks[t].status = "error"
           /\ tasks[t].error[1] = "Failed to authenticate: "
           /\ tasks[t].error \in
                 {AuthFailedBody} \cup {AuthFailedStatus(st) : st \in BadStatuses}
           /\ Len(tasks[t].calls) = 1
           /\ NoDietCall(t))

\* a diet operation failed on a success body without the success flag and
\* another on a non-success status
C19_Witness ==
    \E a, b \in Tasks :
       /\ LoginRefused(a) /\ LoginRefused(b)
       /\ tasks[a].op \in DietOps /\ tasks[b].op \in DietOps
       /\ tasks[a].calls[1].resp = "ok" /\ tasks[a].error = AuthFailedBody
       /\ tasks[b].calls[1].resp = "500" /\ tasks[b].error = AuthFailedStatus("500")

\* C20: every request carries Content-Type: application/json.  A request of
\* an API-key client carries Authorization: Bearer <the key given at
\* construction>; a request of an email+PIN client, the login request
\* included, carries no Authorization header.
C20_RequestHeaders ==
    \A t \in Tasks :
       \A i \in 1..Len(tasks[t].calls) :
          LET c == tasks[t].calls[i]
          IN  /\ c.ctype = "application/json"
              /\ ApiKeyMode => c.auth = <<"Bearer", ctorArgs.apiKey>>
              /\ c.auth # <<>> => (ApiKeyMode /\ c.ep # "login")
              /\ EmailPinMode => c.auth = <<>>
              /\ c.ep = "login" => c.auth = <<>>

\* an API-key client has sent a feed lookup and a diet request
C20_Witness ==
    /\ ApiKeyMode
    /\ \E t \in Tasks :
          /\ Len(tasks[t].calls) = 2
          /\ tasks[t].calls[1].ep = "feed" /\ tasks[t].calls[2].ep = "rec"
          /\ tasks[t].calls[1].auth = <<"Bearer", "k1">>
          /\ tasks[t].calls[2].auth = <<"Bearer", "k1">>
          /\ tasks[t].calls[2].ctype = "application/json"

\* the i-th request of invocation t failed: the fetch was rejected, the
\* status was not a success, or the login body was not accepted
RequestFailed(t, i) ==
    LET c == tasks[t].calls[i]
    IN  \/ c.resp \in {"neterr"} \cup BadStatuses
        \/ c.ep = "login" /\ c.resp = "ok" /\ ~Truthy(c.val)

IdentityOps == {"getUserId", "getCountryId", "getCurrency"} \cup DietOps

\* C28: a refused login leaves the three cache fields as they were, whether
\* they were empty or had been populated by a concurrent login; and an
\* operation that needs the identity and starts while the cache holds no user
\* id (as it does after a failed first login) sends a login request.
C28_FailedLoginLeavesCache ==
    [][/\ \A t \in Tasks :
             (/\ tasks[t].status = "running" /\ tasks[t].pc = "login"
              /\ tasks'[t].status = "error")
             => (/\ cachedUserId' = cachedUserId
                 /\ cachedCountryId' = cachedCountryId
                 /\ cachedCurrency' = cachedCurrency)
       /\ \A t \in Tasks :
             (/\ EmailPinMode
              /\ ~Truthy(cachedUserId)
              /\ tasks[t].status = "idle" /\ tasks'[t].status # "idle"
              /\ tasks'[t].op \in IdentityOps)
             => (/\ Len(tasks'[t].calls) = 1
                 /\ tasks'[t].calls[1].ep = "login"
                 /\ loginCount' = loginCount + 1)]_vars

\* of two concurrent logins one was accepted and one refused, and the cache
\* holds the accepted identity
C28_Witness ==
    /\ loginCount = 2
    /\ \E u \in Users : <<cachedUserId, cachedCountryId, cachedCurrency>> = CacheOf(u)
    /\ \E a, b \in Tasks :
          /\ LoginRefused(a) /\ tasks[a].status = "error"
          /\ tasks[b].calls # <<>> /\ tasks[b].calls[1].ep = "login"
          /\ tasks[b].calls[1].resp = "ok" /\ Truthy(tasks[b].calls[1].val)

\* the three cache fields are all unset or all from one accepted login
CacheFromOneLogin ==
    \/ <<cachedUserId, cachedCountryId, cachedCurrency>> = <<Absent, Absent, Absent>>
    \/ \E u \in loginUsers : <<cachedUserId, cachedCountryId, cachedCurrency>> = CacheOf(u)

\* what invocation t dispatched came from one accepted login
ObservesOneLogin(t) ==
    LET s == tasks[t]
    IN  \A i \in 1..Len(s.calls) :
           IsDietCall(s.calls[i])
           => \E u \in loginUsers :
                 /\ s.calls[i].user_id = u.id
                 /\ ~Truthy(s.countryId) => s.calls[i].country_id = u.country_id
                 /\ (s.calls[i].ep = "eval" /\ ~Truthy(s.currency))
                       => s.calls[i].currency = CacheOf(u)[3]

\* C29: in every state of an email+PIN client the three cache fields are all
\* unset or all from one login response, and no operation combines the user
\* id of one login response with the country id or currency of another, also
\* when concurrent logins return different identities.
C29_NoMixedIdentity ==
    EmailPinMode => (CacheFromOneLogin /\ \A t \in Tasks : ObservesOneLogin(t))

\* C30: in email+PIN mode getFeedById, searchFeeds and getCountries each
\* send exactly one request, to their own endpoint and without a credential,
\* whether or not the cache is populated; they send no login request and
\* their steps leave the cache and the credentials as they were.
C30_LookupsNeedNoIdentity ==
    [][\A t \in Tasks :
          (EmailPinMode /\ tasks'[t].op \in {"getFeedById", "searchFeeds", "getCountries"}
           /\ tasks'[t] # tasks[t])
          => (/\ Len(tasks'[t].calls) = 1
              /\ tasks'[t].calls[1].ep =
                    (IF tasks'[t].op = "getFeedById" THEN "feed"
                     ELSE IF tasks'[t].op = "searchFeeds" THEN "search" ELSE "countries")
              /\ tasks'[t].calls[1].auth = <<>>
              /\ tasks'[t].calls[1].user_id = Absent
              /\ loginCount' = loginCount
              /\ <<cachedUserId', cachedCountryId', cachedCurrency'>>
                    = <<cachedUserId, cachedCountryId, cachedCurrency>>
              /\ <<apiKey', userEmail', userPin'>> = <<apiKey, userEmail, userPin>>)]_vars

\* after a login had populated the cache, getCountries was answered and the
\* cache still holds that login's identity
C30_Witness ==
    /\ EmailPinMode
    /\ loginCount = 1
    /\ cachedUserId = "u1"
    /\ \E t \in Tasks :
          /\ tasks[t].op = "getCountries"
          /\ tasks[t].cacheAtCall
          /\ tasks[t].status = "ok"
          /\ Len(tasks[t].calls) = 1 /\ tasks[t].calls[1].auth = <<>>

\* C26: when uploadFeeds returns, every feed it was given has been sent
\* exactly once (whatever happened to the others), successful + failed is
\* the number of feeds, successful counts the feeds whose upload succeeded,
\* and success is true exactly when failed is 0.  No feed is ever sent twice,
\* and with its configuration present uploadFeeds does not throw.
C26_EveryFeedOnce ==
    /\ \A f \in 1..MaxFeeds : imp.sent[f] <= 1
    /\ imp.pc = "threw" => (~Truthy(imp.admin) \/ ~Truthy(imp.country))
    /\ imp.pc = "returned" =>
          /\ \A f \in 1..MaxFeeds : imp.sent[f] = (IF f \in Feeds(imp.n) THEN 1 ELSE 0)
          /\ imp.ret.total = imp.n
          /\ imp.ret.successful + imp.ret.failed = imp.n
          /\ imp.ret.successful
                = Cardinality({f \in Feeds(imp.n) : imp.state[f] = "success"})
          /\ imp.ret.success <=> (imp.ret.failed = 0)

\* three feeds in two batches: the first upload failed, the others
\* succeeded, and the summary counts them
C26_Witness ==
    /\ imp.pc = "returned"
    /\ imp.n = 3 /\ imp.batchSize = SmallBatch
    /\ imp.state[1] = "failure" /\ imp.state[2] = "success" /\ imp.state[3] = "success"
    /\ imp.ret.successful = 2 /\ imp.ret.failed = 1
    /\ ~imp.ret.success

\* C27: within a batch the request of the (k+1)-th feed is sent only after
\* the delay that follows the k-th feed's request has elapsed, so the
\* requests of a batch are not all in flight at once.
C27_RequestsSpacedByDelay ==
    imp.pc = "batch" =>
       /\ \A f \in Batch(imp) :
             (imp.state[f] # "none" /\ BatchIndex(imp, f) >= 1)
             => imp.timers >= BatchIndex(imp, f) + 1
       /\ Cardinality(Batch(imp)) >= 2 =>
             \E f \in Batch(imp) : imp.state[f] # "pending"

\* C25: in the environment-configured server under API-key authentication,
\* the recommendation request of get_diet_recommendation carries user_id =
\* FEED_API_USER_ID when that is set, and its country_id is the country found
\* by the lookup of the first feed.
C25_UserIdForwarded ==
    \A t \in Tasks :
       (/\ srv.kind = "env"
        /\ ApiKeyMode
        /\ Truthy(srv.env.userId)
        /\ srv.reqs[t].tool = "get_diet_recommendation")
       => \A i \in 1..Len(tasks[t].calls) :
             tasks[t].calls[i].ep = "rec"
             => (/\ tasks[t].calls[i].user_id = srv.env.userId
                 /\ i = 2
                 /\ tasks[t].calls[1].ep = "feed"
                 /\ tasks[t].calls[i].country_id = tasks[t].calls[1].val)

\* C22: in the header-based server a request whose Authorization header
\* carries an API key is served by a client built from that key: every
\* backend call made for it carries that key as its bearer token, none is a
\* login, its client holds no cached identity, and no call names a user that
\* a login returned, however the requests interleave.
C22_RequestsIsolated ==
    \A t \in Tasks :
       (/\ srv.kind = "header"
        /\ srv.reqs[t].phase # "none"
        /\ Truthy(ExtractApiKeyFromRequest(srv.reqs[t].header)))
       => /\ ClientOf(t).phase = "ready"
          /\ ClientOf(t).apiKey = ExtractApiKeyFromRequest(srv.reqs[t].header)
          /\ ClientOf(t).cachedUserId = Absent
          /\ ClientOf(t).cachedCountryId = Absent
          /\ ClientOf(t).cachedCurrency = Absent
          /\ \A i \in 1..Len(tasks[t].calls) :
                /\ tasks[t].calls[i].ep # "login"
                /\ tasks[t].calls[i].auth =
                      Bearer(ExtractApiKeyFromRequest(srv.reqs[t].header))
                /\ tasks[t].calls[i].user_id \notin {u.id : u \in Users}

\* two requests with different keys were in progress at once, and each had
\* had a backend call answered
C22_Witness ==
    /\ srv.kind = "header"
    /\ \E t, u \in Tasks :
          /\ t # u
          /\ srv.reqs[t].phase = "running" /\ srv.reqs[u].phase = "running"
          /\ ExtractApiKeyFromRequest(srv.reqs[t].header) = "k1"
          /\ ExtractApiKeyFromRequest(srv.reqs[u].header) = "k2"
          /\ tasks[t].calls # <<>> /\ tasks[t].calls[1].resp # "pending"
          /\ tasks[u].calls # <<>> /\ tasks[u].calls[1].resp # "pending"

\* C23: a handler of one of the four tools that has settled has returned a
\* payload: the client's result (the backend's JSON) with no error mark when
\* the client call succeeded, and a payload marked isError carrying the
\* error's message when the client call failed.
C23_HandlersAlwaysAnswer ==
    \A t \in Tasks :
       (/\ srv.kind = "header"
        /\ srv.reqs[t].phase = "done"
        /\ srv.reqs[t].tool \in Tools)
       => /\ srv.reqs[t].payload.set
          /\ tasks[t].status = "ok"
             => /\ ~srv.reqs[t].payload.isError
                /\ srv.reqs[t].payload.result =
                      ToolResult(srv.reqs[t].tool, tasks[t].result)
          /\ tasks[t].status = "error"
             => /\ srv.reqs[t].payload.isError
                /\ Len(srv.reqs[t].payload.message) = 1 + Len(tasks[t].error)
                /\ \A i \in 1..Len(tasks[t].error) :
                      srv.reqs[t].payload.message[i + 1] = tasks[t].error[i]

\* one handler returned the backend's result and another, whose backend
\* call was refused, returned an error payload
C23_Witness ==
    /\ srv.kind = "header"
    /\ \E t, u \in Tasks :
          /\ srv.reqs[t].phase = "done" /\ srv.reqs[t].tool = "evaluate_diet"
          /\ tasks[t].status = "ok" /\ ~srv.reqs[t].payload.isError
          /\ srv.reqs[u].phase = "done" /\ srv.reqs[u].tool = "search_feeds"
          /\ tasks[u].status = "error" /\ srv.reqs[u].payload.isError

\* the credentials createFeedClient is to choose for header h in environment e
ChosenCredentials(h, e) ==
    IF Truthy(ExtractApiKeyFromRequest(h))
    THEN <<ExtractApiKeyFromRequest(h), Absent, Absent>>
    ELSE IF Truthy(e.key) THEN <<e.key, Absent, Absent>>
    ELSE IF Truthy(e.email) /\ Truthy(e.pin) THEN <<Absent, e.email, e.pin>>
    ELSE <<>>

\* C24: the client of a request holds the key of its header if there is one,
\* else the key of the environment, else the email and PIN of the
\* environment; with none of these there is no client, only the 'error' tool
\* is registered, and the request makes no backend call.
C24_CredentialPriority ==
    \A t \in Tasks :
       (srv.kind = "header" /\ srv.reqs[t].phase # "none")
       => IF ChosenCredentials(srv.reqs[t].header, srv.env) # <<>>
          THEN /\ ClientOf(t).phase = "ready"
               /\ <<ClientOf(t).apiKey, ClientOf(t).userEmail, ClientOf(t).userPin>>
                     = ChosenCredentials(srv.reqs[t].header, srv.env)
               /\ srv.reqs[t].tools = Tools
          ELSE /\ ClientOf(t).phase = "none"
               /\ srv.reqs[t].tools = {"error"}
               /\ srv.reqs[t].tool \in {"none", "error"}
               /\ tasks[t].calls = <<>>
               /\ tasks[t].status = "idle"

\* with a key in the environment too, one request was served with the key of
\* its header and had a backend call answered, and a request without a key
\* was served with the key of the environment
C24_Witness ==
    /\ srv.kind = "header"
    /\ srv.env.key = "k0"
    /\ \E t, u \in Tasks :
          /\ srv.reqs[t].header.rest = "k1"
          /\ tasks[t].calls # <<>> /\ tasks[t].calls[1].auth = Bearer("k1")
          /\ tasks[t].calls[1].resp # "pending"
          /\ srv.reqs[u].phase = "running"
          /\ ~srv.reqs[u].header.present
          /\ tasks[u].calls # <<>> /\ tasks[u].calls[1].auth = Bearer("k0")

\* a request without credentials anywhere called the 'error' tool
C24_WitnessNoClient ==
    /\ srv.kind = "header"
    /\ \E t \in Tasks :
          /\ srv.reqs[t].phase = "done"
          /\ srv.reqs[t].tool = "error"
          /\ srv.reqs[t].payload.isError

====
